---- MODULE Spec2Model ----
(***************************************************************************)
(* Model of the interception subsystem of cstrike2-hack:                   *)
(*   - the hook manager     (cheat/src/utils/hook_system/mod.rs)           *)
(*   - the module registry  (cheat/src/cs2/modules/mod.rs)                 *)
(*   - the pattern scanner  (cheat/src/utils/module_handler/mod.rs)        *)
(*   - the interface resolver (module_handler::get_interface)              *)
(*   - the attach sequence  (cheat/src/core/bootstrap/mod.rs and           *)
(*                           cheat/src/core/hooks/mod.rs)                  *)
(* Each subsystem has its own specification (SpecHook, SpecModules,        *)
(* SpecScan, SpecIface); the variables of the other subsystems stay at     *)
(* their initial values. SpecPoison is the hook manager with callers whose *)
(* closure panics; SpecBoot runs the attach sequence on the actions of the *)
(* module registry and the hook manager, SpecMisuse adds a Hook::hook call *)
(* that is not one of initialize_hooks. FairSpecHook is the hook manager   *)
(* driven as initialize_hooks drives it, with running threads.             *)
(* The code the detours use has its own specifications as well:            *)
(*   - SpecVcall    the virtual call adapter (macros/memory/src/vfunc.rs,  *)
(*                  cheat/src/cs2/interfaces/engine_client.rs)             *)
(*   - SpecLazy     engine_client() (cheat/src/cs2/interfaces/mod.rs)      *)
(*   - SpecDll      dll_main (cheat/src/entry_point.rs)                    *)
(*   - SpecOverlay  render::setup, the three detours and wndproc_hk        *)
(*                  (cheat/src/core/hooks/mod.rs, cheat/src/utils/render)  *)
(***************************************************************************)
EXTENDS Integers, Sequences, FiniteSets, TLC

\* ------------------------------------------------------------------ bounds
\* target addresses handed to Hook::hook
NumTargets == 2
\* detour addresses handed to Hook::hook
NumDetours == 2
\* host threads that may run an enabled detour
NumHosts == 1
\* Hook::hook calls in one run (the length TARGETS can reach)
MaxHooks == 2

\* threads that may call initialize_modules
NumInitThreads == 2
\* length of the `names` list handed to initialize_modules
MaxNames == 2
\* initialize_modules calls in one run
MaxInitCalls == 3

\* bytes of the module image
MaxImage == 4
\* tokens of the pattern
MaxPattern == 3
\* width of usize in the model
UsizeBits == 5

\* characters of an interface name
MaxNameLen == 2
\* non-null interface pointers the module's factory can hand out
NumIfacePtrs == 2
\* slots of a dispatch table that the generated virtual calls go through
NumSlots == 2
\* threads that call engine_client()
NumCallers == 2
\* threads that call dll_main, the calls they make, the largest reason code
NumDllThreads == 2
MaxDllCalls == 4
MaxReason == 3
\* nesting of detour invocations on one thread
MaxDepth == 2

Targets == 1..NumTargets
Detours == 1..NumDetours
Hosts == 1..NumHosts
\* the initialization thread, which installs the hooks
Installer == 0

\* ------------------------------------------------------------------- state
VARIABLES
    TARGETS,     \* the registry: VecDeque<Hook> behind the mutex
    lock,        \* the threads holding the TARGETS mutex ({}: free)
    mhEnabled,   \* the detours the primitive's enabled redirects lead to
    mhTramps,    \* trampolines the primitive has allocated so far
    ipc,         \* position of the installing thread inside Hook::hook
    hk,          \* the local `hk` of the running (or last) Hook::hook call
    hkBefore,    \* TARGETS as the running (or last) Hook::hook call found it
    createRes,   \* MH_CreateHook's status in that call (None: not called)
    enableRes,   \* MH_EnableHook's status in that call (None: not called)
    hookRet,     \* what that call returned: "true", "false" ("none": not yet)
    hpc,         \* position of each host thread inside a detour
    hdet,        \* the detour each host thread runs (NULL: none)
    hraced,      \* the detour was entered before its entry was in TARGETS
    hres,        \* outcome of each host thread's last get_proto_original
    mhInit,      \* MH_Initialize has succeeded: the primitive is initialized
    mhRet,       \* what initialize_minhook returned: "Ok", "Err" ("none": not called)
    mhOks,       \* initialize_minhook calls that returned Ok so far
    poisoned,    \* the TARGETS mutex is poisoned
    lockRes,     \* TARGETS.lock() in the running (or last) Hook::hook call:
                 \* "ok", "err" ("none": no call yet)
    hookedOk     \* the detours for which a Hook::hook call has returned true

VARIABLES
    MODULES,     \* the OnceCell: EmptyCell, or Some(the stored Vec<Module>)
    loaded,      \* names of the binaries loaded in the host process
    mpc,         \* position of each thread inside initialize_modules
    mnames,      \* the `names` argument of each thread's running call
    mbuilt,      \* the Vec<Module> that call collected, until it is moved
    mentrySet,   \* MODULES was already set when the running (or last) call started
    mmissing,    \* that call's `names` held a name that is not loaded
    mret,        \* how that call ended ("none": not ended)
    mfirst,      \* the Vec<Module> the first successful call stored
    mcalls       \* initialize_modules calls started so far

moduleVars == <<MODULES, loaded, mpc, mnames, mbuilt, mentrySet, mmissing, mret,
                mfirst, mcalls>>

\* the state of the primitive's global initializer
mhVars == <<mhInit, mhRet, mhOks>>

hookVars == <<TARGETS, lock, mhEnabled, mhTramps, ipc, hk, hkBefore,
              createRes, enableRes, hookRet, hpc, hdet, hraced, hres,
              mhVars, poisoned, lockRes, hookedOk>>

VARIABLES
    image,       \* the module's mapped bytes: SizeOfImage bytes at lpBaseOfDll
    base,        \* lpBaseOfDll
    infoOk,      \* GetModuleInformation succeeds for the handle
    pattern,     \* the pattern text, as its whitespace-separated tokens
    spc,         \* "ready", or "done" once pattern_search has run
    sres         \* what pattern_search did and returned

scanVars == <<image, base, infoOk, pattern, spc, sres>>

VARIABLES
    hasExport,   \* the module exports CreateInterface
    factory,     \* what the module's CreateInterface returns for each C string
    iname,       \* the interface_name handed to get_interface
    gpc,         \* "ready" before the get_interface call, "done" after it
    gres         \* how the call ended: a panic, None or Some(pointer)

ifaceVars == <<hasExport, factory, iname, gpc, gres>>

VARIABLES
    bnext,       \* index in BootSteps of the step the attach sequence is at
    blog,        \* the steps that have ended, in order, each with its outcome
    bret,        \* how bootstrap::initialize ended: "Ok", "Err", "panic"
                 \* ("none": it is running)
    bfound       \* the targets the pattern searches of initialize_hooks found

bootVars == <<bnext, blog, bret, bfound>>

VARIABLES
    vmem,        \* the host's memory: the word stored at each mapped address
    vobj,        \* address of the host object the call is made on
    vtab,        \* the object's dispatch table as the host built it, per slot
    vidx,        \* the slot index of the call (NULL: no call yet)
    vpc,         \* "ready" before the virtual call, "done" after it
    vcalls,      \* the host functions invoked, each with its first argument
    vret         \* what the virtual call returned

vcallVars == <<vmem, vobj, vtab, vidx, vpc, vcalls, vret>>

VARIABLES
    lzState,     \* the Lazy of engine_client: "uninit", "running" (a thread
                 \* runs its initializer), "init", "poisoned"
    lzVal,       \* the interface pointer the Lazy holds once it is "init"
    lzCalls,     \* invocations of the module's factory export so far
    epc,         \* position of each thread inside engine_client()
    eret         \* what each thread's last engine_client() call returned

lazyVars == <<lzState, lzVal, lzCalls, epc, eret>>

VARIABLES
    onceState,   \* the Once of dll_main: "incomplete", "running", "complete"
    console,     \* AllocConsole's outcome: "allocated", "failed" ("none": not called)
    started,     \* initialization threads CreateThread has started
    dpc,         \* position of each thread inside dll_main
    dreason,     \* the reason code of each thread's running (or last) call
    dret,        \* what each thread's last dll_main call returned
    dcalls       \* dll_main calls made so far

dllVars == <<onceState, console, started, dpc, dreason, dret, dcalls>>

VARIABLES
    wndHooked,   \* the window's procedure is wndproc_hk
    WNDPROC,     \* the OnceLock holding the old window procedure
    INPUT,       \* the OnceLock holding the input manager's mutex
    DX11,        \* the OnceLock holding the renderer's mutex
    FONTS,       \* the font definitions behind their mutex
    showMenu,    \* SHOW_MENU
    olock,       \* for each overlay lock, the threads holding it ({}: free)
    rpc,         \* the step render::setup (then initialize_hooks) is at
    stack,       \* for each host thread, its running invocations, innermost last
    olast,       \* for each host thread, the invocation that returned last
    opanic       \* the message of the panic that aborted the process ("": none)

overlayVars == <<wndHooked, WNDPROC, INPUT, DX11, FONTS, showMenu, olock, rpc,
                 stack, olast, opanic>>

\* the variables of the subsystems up to the attach sequence
coreVars == <<hookVars, moduleVars, scanVars, ifaceVars, bootVars>>
\* the variables of the subsystems used by the detours
extVars == <<vcallVars, lazyVars, dllVars, overlayVars>>

vars == <<coreVars, extVars>>

\* what the actions of one subsystem leave alone
notHookVars == <<moduleVars, scanVars, ifaceVars, bootVars, extVars>>
notModuleVars == <<hookVars, scanVars, ifaceVars, bootVars, extVars>>
notScanVars == <<hookVars, moduleVars, ifaceVars, bootVars, extVars>>
notIfaceVars == <<hookVars, moduleVars, scanVars, bootVars, extVars>>
notBootVars == <<hookVars, moduleVars, scanVars, ifaceVars, extVars>>
notVcallVars == <<coreVars, lazyVars, dllVars, overlayVars>>
\* the detour-side variables that engine_client() leaves alone
notLazyExt == <<vcallVars, dllVars, overlayVars>>
\* the detour-side variables that dll_main leaves alone
notDllExt == <<vcallVars, lazyVars, overlayVars>>
\* the detour-side variables that the overlay leaves alone
notOverlayExt == <<vcallVars, lazyVars, dllVars>>

\* --------------------------------------------------------------- hook data
\* null_mut(): the value Hook::hook puts in `original` before MH_CreateHook
NULL == 0

\* status codes of the primitive: MH_OK is 0, every other value is a failure
MH_OK == 0
MH_ERROR == 1
MHStatus == {MH_OK, MH_ERROR}

\* Option<R>
None == [some |-> FALSE, val |-> NULL]
Some(v) == [some |-> TRUE, val |-> v]

\* a status the primitive returned and that is not MH_OK
Failed(res) == res.some /\ res.val # MH_OK

\* struct Hook
Hook(t, d, o) == [target |-> t, detour |-> d, original |-> o]

\* the entries of targets whose target is t
EntriesFor(targets, t) == {i \in DOMAIN targets : targets[i].target = t}

\* a find that compares the entry's target, not its detour, with d
RECURSIVE FindByTarget(_, _, _)
FindByTarget(targets, d, i) ==
    IF i > Len(targets) THEN 0
    ELSE IF targets[i].target = d THEN i
    ELSE FindByTarget(targets, d, i + 1)

\* index of the first entry of targets with detour d, 0 when there is none
\* (Iterator::find)
RECURSIVE FindDetour(_, _, _)
FindDetour(targets, d, i) ==
    IF i > Len(targets) THEN 0
    ELSE IF targets[i].detour = d THEN i
    ELSE FindDetour(targets, d, i + 1)

\* Hook::get_proto_original, with the lock held: the original of the first
\* entry whose detour is d
get_proto_original(targets, d) ==
    LET i == FindDetour(targets, d, 1)
    IN IF i = 0 THEN None ELSE Some(targets[i].original)

\* ------------------------------------------------------ initialize_minhook
\* MH_Initialize(): MH_ERROR_ALREADY_INITIALIZED once it has succeeded,
\* otherwise it succeeds or fails (out of memory)
MH_InitializeStatus(init) == IF init THEN {MH_ERROR} ELSE MHStatus

\* initialize_minhook: Err when MH_Initialize() != 0, Ok otherwise
InitializeMinhook ==
    /\ \E r \in MH_InitializeStatus(mhInit) :
        /\ mhInit' = (mhInit \/ r = MH_OK)
        /\ mhRet' = IF r # MH_OK THEN "Err" ELSE "Ok"
        /\ mhOks' = IF r # MH_OK THEN mhOks ELSE mhOks + 1
    /\ UNCHANGED <<TARGETS, lock, mhEnabled, mhTramps, ipc, hk, hkBefore,
                   createRes, enableRes, hookRet, hpc, hdet, hraced, hres,
                   poisoned, lockRes, hookedOk>>
    /\ UNCHANGED notHookVars

\* ------------------------------------------------------- Hook::hook, steps
\* TARGETS.lock(): on a poisoned mutex the call prints and returns false;
\* otherwise the guard is taken and the local hk is built
HookLockStep(t, d) ==
    /\ ipc = "idle"
    /\ lock = {}
    /\ hkBefore' = TARGETS
    /\ createRes' = None
    /\ enableRes' = None
    /\ IF poisoned
       THEN /\ lockRes' = "err"
            /\ hookRet' = "false"
            /\ UNCHANGED <<lock, ipc, hk>>
       ELSE /\ lockRes' = "ok"
            /\ lock' = {Installer}
            /\ ipc' = "locked"
            /\ hk' = Hook(t, d, NULL)
            /\ hookRet' = "none"
    /\ UNCHANGED <<TARGETS, mhEnabled, mhTramps, hpc, hdet, hraced, hres,
                   mhVars, poisoned, hookedOk>>
    /\ UNCHANGED notHookVars

\* a Hook::hook call, at most MaxHooks entries being installed in one run
HookLock(t, d) ==
    /\ Len(TARGETS) < MaxHooks
    /\ HookLockStep(t, d)

\* MH_CreateHook: MH_ERROR_NOT_INITIALIZED before MH_Initialize has
\* succeeded, otherwise it succeeds or fails
MH_CreateHookStatus(init) == IF init THEN MHStatus ELSE {MH_ERROR}

\* MH_CreateHook(hk.target, hk.detour, &mut hk.original): on success the
\* primitive reports a fresh trampoline; on failure hook returns false
HookCreate ==
    /\ ipc = "locked"
    /\ \E r \in MH_CreateHookStatus(mhInit) :
        /\ createRes' = Some(r)
        /\ IF r = MH_OK
           THEN /\ mhTramps' = mhTramps + 1
                /\ hk' = [hk EXCEPT !.original = mhTramps + 1]
                /\ ipc' = "created"
                /\ UNCHANGED <<lock, hookRet>>
           ELSE /\ ipc' = "idle"
                /\ hookRet' = "false"
                /\ lock' = {}
                /\ UNCHANGED <<mhTramps, hk>>
    /\ UNCHANGED <<TARGETS, mhEnabled, hkBefore, enableRes, hpc, hdet, hraced, hres,
                   mhVars, poisoned, lockRes, hookedOk>>
    /\ UNCHANGED notHookVars

\* HookEnable with the guard dropped before push_back (the entry is appended
\* outside the critical section)
HookEnableDropsGuard ==
    /\ ipc = "created"
    /\ \E r \in MHStatus :
        /\ enableRes' = Some(r)
        /\ mhEnabled' = IF r = MH_OK
                        THEN mhEnabled \cup {hk.detour}
                        ELSE mhEnabled
    /\ ipc' = "enabled"
    /\ lock' = {}
    /\ UNCHANGED <<TARGETS, mhTramps, hk, hkBefore, createRes, hookRet,
                   hpc, hdet, hraced, hres, mhVars, poisoned, lockRes, hookedOk>>
    /\ UNCHANGED notHookVars

\* MH_EnableHook(hk.target); its status is dropped
HookEnable ==
    /\ ipc = "created"
    /\ \E r \in MHStatus :
        /\ enableRes' = Some(r)
        /\ mhEnabled' = IF r = MH_OK
                        THEN mhEnabled \cup {hk.detour}
                        ELSE mhEnabled
    /\ ipc' = "enabled"
    /\ UNCHANGED <<TARGETS, lock, mhTramps, hk, hkBefore, createRes, hookRet,
                   hpc, hdet, hraced, hres, mhVars, poisoned, lockRes, hookedOk>>
    /\ UNCHANGED notHookVars

\* a push_back that is skipped for a target the registry already holds,
\* while the call still returns true
HookPushNoAppend ==
    /\ ipc = "enabled"
    /\ TARGETS' = IF EntriesFor(TARGETS, hk.target) = {}
                  THEN Append(TARGETS, hk)
                  ELSE TARGETS
    /\ hookRet' = "true"
    /\ hookedOk' = hookedOk \cup {hk.detour}
    /\ lock' = {}
    /\ ipc' = "idle"
    /\ UNCHANGED <<mhEnabled, mhTramps, hk, hkBefore, createRes, enableRes,
                   hpc, hdet, hraced, hres, mhVars, poisoned, lockRes>>
    /\ UNCHANGED notHookVars

\* a push_front: the new entry goes before the entries already stored
HookPushFront ==
    /\ ipc = "enabled"
    /\ TARGETS' = <<hk>> \o TARGETS
    /\ hookRet' = "true"
    /\ hookedOk' = hookedOk \cup {hk.detour}
    /\ lock' = {}
    /\ ipc' = "idle"
    /\ UNCHANGED <<mhEnabled, mhTramps, hk, hkBefore, createRes, enableRes,
                   hpc, hdet, hraced, hres, mhVars, poisoned, lockRes>>
    /\ UNCHANGED notHookVars

\* targets.push_back(hk); true -- the guard is dropped on return
HookPush ==
    /\ ipc = "enabled"
    /\ TARGETS' = Append(TARGETS, hk)
    /\ hookRet' = "true"
    /\ hookedOk' = hookedOk \cup {hk.detour}
    /\ lock' = {}
    /\ ipc' = "idle"
    /\ UNCHANGED <<mhEnabled, mhTramps, hk, hkBefore, createRes, enableRes,
                   hpc, hdet, hraced, hres, mhVars, poisoned, lockRes>>
    /\ UNCHANGED notHookVars

\* -------------------------------------------- a detour run by a host thread
\* the host calls a target whose redirect is enabled: control enters detour d
HostEnter(h, d) ==
    /\ hpc[h] \in {"idle", "returned"}
    /\ d \in mhEnabled
    /\ hpc' = [hpc EXCEPT ![h] = "entered"]
    /\ hdet' = [hdet EXCEPT ![h] = d]
    /\ hraced' = [hraced EXCEPT ![h] = (FindDetour(TARGETS, d, 1) = 0)]
    /\ hres' = [hres EXCEPT ![h] = "none"]
    /\ UNCHANGED <<TARGETS, lock, mhEnabled, mhTramps, ipc, hk, hkBefore,
                   createRes, enableRes, hookRet, mhVars, poisoned, lockRes, hookedOk>>
    /\ UNCHANGED notHookVars

\* get_proto_original: TARGETS.lock() blocks until the mutex is free; on a
\* poisoned mutex the function prints and returns None ("lockerr"), which
\* get_original_fn! unwraps
HostLock(h) ==
    /\ hpc[h] = "entered"
    /\ lock = {}
    /\ IF poisoned
       THEN /\ hres' = [hres EXCEPT ![h] = "lockerr"]
            /\ hpc' = [hpc EXCEPT ![h] = "panicked"]
            /\ hdet' = [hdet EXCEPT ![h] = NULL]
            /\ UNCHANGED lock
       ELSE /\ lock' = {h}
            /\ hpc' = [hpc EXCEPT ![h] = "locked"]
            /\ UNCHANGED <<hres, hdet>>
    /\ UNCHANGED <<TARGETS, mhEnabled, mhTramps, ipc, hk, hkBefore,
                   createRes, enableRes, hookRet, hraced,
                   mhVars, poisoned, lockRes, hookedOk>>
    /\ UNCHANGED notHookVars

\* a get_proto_original whose guard outlives the function: the lock is
\* still held while the detour calls the original
HostFindKeepsGuard(h) ==
    /\ hpc[h] = "locked"
    /\ LET r == get_proto_original(TARGETS, hdet[h])
       IN /\ hres' = [hres EXCEPT ![h] = IF r.some THEN "found" ELSE "absent"]
          /\ hpc' = [hpc EXCEPT ![h] = IF r.some THEN "returned" ELSE "panicked"]
    /\ hdet' = [hdet EXCEPT ![h] = NULL]
    /\ UNCHANGED <<TARGETS, lock, mhEnabled, mhTramps, ipc, hk, hkBefore,
                   createRes, enableRes, hookRet, hraced,
                   mhVars, poisoned, lockRes, hookedOk>>
    /\ UNCHANGED notHookVars

\* get_proto_original: the scan under the guard, the guard dropped on return;
\* get_original_fn! unwraps the result, so an absent entry panics the thread,
\* otherwise the detour calls the original and returns
HostFind(h) ==
    /\ hpc[h] = "locked"
    /\ LET r == get_proto_original(TARGETS, hdet[h])
       IN /\ hres' = [hres EXCEPT ![h] = IF r.some THEN "found" ELSE "absent"]
          /\ hpc' = [hpc EXCEPT ![h] = IF r.some THEN "returned" ELSE "panicked"]
    /\ hdet' = [hdet EXCEPT ![h] = NULL]
    /\ lock' = {}
    /\ UNCHANGED <<TARGETS, mhEnabled, mhTramps, ipc, hk, hkBefore,
                   createRes, enableRes, hookRet, hraced,
                   mhVars, poisoned, lockRes, hookedOk>>
    /\ UNCHANGED notHookVars

\* get_proto_original<F, R>(func: F): the caller's closure is called under
\* the guard; when it panics, the guard is dropped during unwinding and the
\* mutex is poisoned
HostFindPanics(h) ==
    /\ hpc[h] = "locked"
    /\ TARGETS # <<>>
    /\ hres' = [hres EXCEPT ![h] = "unwound"]
    /\ hpc' = [hpc EXCEPT ![h] = "panicked"]
    /\ hdet' = [hdet EXCEPT ![h] = NULL]
    /\ poisoned' = TRUE
    /\ lock' = {}
    /\ UNCHANGED <<TARGETS, mhEnabled, mhTramps, ipc, hk, hkBefore,
                   createRes, enableRes, hookRet, hraced,
                   mhVars, lockRes, hookedOk>>
    /\ UNCHANGED notHookVars

\* get_proto_original(|| d) called directly, outside a detour, by a thread
\* that runs no call (the public function, any caller)
HostCall(h, d) ==
    /\ hpc[h] \in {"idle", "returned", "panicked"}
    /\ hpc' = [hpc EXCEPT ![h] = "entered"]
    /\ hdet' = [hdet EXCEPT ![h] = d]
    /\ hraced' = [hraced EXCEPT ![h] = FALSE]
    /\ hres' = [hres EXCEPT ![h] = "none"]
    /\ UNCHANGED <<TARGETS, lock, mhEnabled, mhTramps, ipc, hk, hkBefore,
                   createRes, enableRes, hookRet, mhVars, poisoned, lockRes, hookedOk>>
    /\ UNCHANGED notHookVars

InitHookVars ==
    /\ TARGETS = <<>>
    /\ lock = {}
    /\ mhEnabled = {}
    /\ mhTramps = 0
    /\ ipc = "idle"
    /\ hk = Hook(NULL, NULL, NULL)
    /\ hkBefore = <<>>
    /\ createRes = None
    /\ enableRes = None
    /\ hookRet = "none"
    /\ hpc = [h \in Hosts |-> "idle"]
    /\ hdet = [h \in Hosts |-> NULL]
    /\ hraced = [h \in Hosts |-> FALSE]
    /\ hres = [h \in Hosts |-> "none"]
    /\ mhRet = "none"
    /\ mhOks = 0
    /\ poisoned = FALSE
    /\ lockRes = "none"
    /\ hookedOk = {}

NextHook ==
    \/ \E t \in Targets, d \in Detours : HookLock(t, d)
    \/ HookCreate
    \/ HookEnable
    \/ HookPush
    \/ \E h \in Hosts, d \in Detours : HostEnter(h, d)
    \/ \E h \in Hosts : HostLock(h)
    \/ \E h \in Hosts : HostFind(h)

\* create_hook!(target, detour) as initialize_hooks uses it: every detour is
\* installed at the target found for it
InstallOwn(d) == d \in Targets /\ HookLock(d, d)

\* the hook manager driven by initialize_hooks and the host's threads
FairNextHook ==
    \/ \E d \in Detours : InstallOwn(d)
    \/ HookCreate
    \/ HookEnable
    \/ HookPush
    \/ \E h \in Hosts, d \in Detours : HostEnter(h, d)
    \/ \E h \in Hosts : HostLock(h)
    \/ \E h \in Hosts : HostFind(h)

\* the hook manager with callers whose closure may panic under the guard
NextPoison ==
    \/ \E t \in Targets, d \in Detours : HookLock(t, d)
    \/ HookCreate
    \/ HookEnable
    \/ HookPush
    \/ \E h \in Hosts, d \in Detours : HostEnter(h, d)
    \/ \E h \in Hosts : HostLock(h)
    \/ \E h \in Hosts : HostFind(h)
    \/ \E h \in Hosts : HostFindPanics(h)
    \/ \E h \in Hosts, d \in Detours : HostCall(h, d)

\* ---------------------------------------------------------- module registry
InitThreads == 1..NumInitThreads

\* binary names handed to initialize_modules (two of the names that
\* bootstrap::initialize passes)
ModuleNames == {"client.dll", "engine2.dll"}

\* the `names` slices of the model: every list of at most MaxNames names
RECURSIVE NameLists(_)
NameLists(n) ==
    IF n = 0 THEN {<<>>}
    ELSE LET shorter == NameLists(n - 1)
         IN shorter \cup {Append(l, m) : l \in {x \in shorter : Len(x) = n - 1},
                                          m \in ModuleNames}

\* OnceCell::new(): the cell before any set
EmptyCell == [some |-> FALSE, val |-> <<>>]

\* the HMODULE the host OS gives for a loaded binary
HandleOf(name) == <<"HMODULE", name>>

\* module_handler::get_module_handle: GetModuleHandleW(name).ok()
get_module_handle(name, inHost) ==
    IF name \in inHost THEN Some(HandleOf(name)) ELSE None

\* struct Module
Module(name, handle) == [name |-> name, handle |-> handle]

\* names.iter().map(|&name| Module::new(name)).collect(): Module::new expects
\* the handle, so the first name that is not loaded panics the call
RECURSIVE CollectModules(_, _)
CollectModules(names, inHost) ==
    IF names = <<>> THEN [panic |-> FALSE, modules |-> <<>>]
    ELSE LET h == get_module_handle(Head(names), inHost)
         IN IF ~h.some THEN [panic |-> TRUE, modules |-> <<>>]
            ELSE LET rest == CollectModules(Tail(names), inHost)
                 IN IF rest.panic THEN rest
                    ELSE [panic |-> FALSE,
                          modules |-> <<Module(Head(names), h.val)>> \o rest.modules]

\* the list holds a name that is not loaded in the host process
HasMissingName(names) == \E i \in DOMAIN names : names[i] \notin loaded

\* InitModulesEnter without the `MODULES.get().is_some()` early return
InitModulesEnterNoCheck(t, names) ==
    /\ mpc[t] \in {"idle", "done"}
    /\ mcalls < MaxInitCalls
    /\ mcalls' = mcalls + 1
    /\ mentrySet' = [mentrySet EXCEPT ![t] = MODULES.some]
    /\ mmissing' = [mmissing EXCEPT ![t] = HasMissingName(names)]
    /\ mnames' = [mnames EXCEPT ![t] = names]
    /\ mret' = [mret EXCEPT ![t] = "none"]
    /\ mpc' = [mpc EXCEPT ![t] = "collect"]
    /\ UNCHANGED <<MODULES, loaded, mbuilt, mfirst>>
    /\ UNCHANGED notModuleVars

\* initialize_modules, entry: `if MODULES.get().is_some() { bail!(...) }`
InitModulesEnter(t, names) ==
    /\ mpc[t] \in {"idle", "done"}
    /\ mcalls < MaxInitCalls
    /\ mcalls' = mcalls + 1
    /\ mentrySet' = [mentrySet EXCEPT ![t] = MODULES.some]
    /\ mmissing' = [mmissing EXCEPT ![t] = HasMissingName(names)]
    /\ IF MODULES.some
       THEN /\ mret' = [mret EXCEPT ![t] = "err: modules are already initialized"]
            /\ mpc' = [mpc EXCEPT ![t] = "done"]
            /\ UNCHANGED mnames
       ELSE /\ mret' = [mret EXCEPT ![t] = "none"]
            /\ mpc' = [mpc EXCEPT ![t] = "collect"]
            /\ mnames' = [mnames EXCEPT ![t] = names]
    /\ UNCHANGED <<MODULES, loaded, mbuilt, mfirst>>
    /\ UNCHANGED notModuleVars

\* initialize_modules, the map/collect over names (which consumes them)
InitModulesCollect(t) ==
    /\ mpc[t] = "collect"
    /\ LET c == CollectModules(mnames[t], loaded)
       IN IF c.panic
          THEN /\ mret' = [mret EXCEPT ![t] = "panic: failed to get module handle"]
               /\ mpc' = [mpc EXCEPT ![t] = "panicked"]
               /\ UNCHANGED mbuilt
          ELSE /\ mbuilt' = [mbuilt EXCEPT ![t] = c.modules]
               /\ mpc' = [mpc EXCEPT ![t] = "set"]
               /\ UNCHANGED mret
    /\ mnames' = [mnames EXCEPT ![t] = <<>>]
    /\ UNCHANGED <<MODULES, loaded, mentrySet, mmissing, mfirst, mcalls>>
    /\ UNCHANGED notModuleVars

\* initialize_modules, `MODULES.set(Mutex::new(modules))`: OnceCell::set
\* stores the value only when the cell is empty; `modules` is moved into the
\* call either way
InitModulesSet(t) ==
    /\ mpc[t] = "set"
    /\ IF MODULES.some
       THEN /\ mret' = [mret EXCEPT ![t] = "err: failed to initialize MODULES"]
            /\ UNCHANGED <<MODULES, mfirst>>
       ELSE /\ MODULES' = Some(mbuilt[t])
            /\ mfirst' = IF mfirst.some THEN mfirst ELSE Some(mbuilt[t])
            /\ mret' = [mret EXCEPT ![t] = "ok"]
    /\ mbuilt' = [mbuilt EXCEPT ![t] = <<>>]
    /\ mpc' = [mpc EXCEPT ![t] = "done"]
    /\ UNCHANGED <<loaded, mnames, mentrySet, mmissing, mcalls>>
    /\ UNCHANGED notModuleVars

InitModuleVars ==
    /\ MODULES = EmptyCell
    /\ mpc = [t \in InitThreads |-> "idle"]
    /\ mnames = [t \in InitThreads |-> <<>>]
    /\ mbuilt = [t \in InitThreads |-> <<>>]
    /\ mentrySet = [t \in InitThreads |-> FALSE]
    /\ mmissing = [t \in InitThreads |-> FALSE]
    /\ mret = [t \in InitThreads |-> "none"]
    /\ mfirst = EmptyCell
    /\ mcalls = 0

NextModules ==
    \/ \E t \in InitThreads, names \in NameLists(MaxNames) : InitModulesEnter(t, names)
    \/ \E t \in InitThreads : InitModulesCollect(t)
    \/ \E t \in InitThreads : InitModulesSet(t)

\* ----------------------------------------------------------- pattern scanner
\* usize::MAX + 1
USIZE_MOD == 2 ^ UsizeBits

\* the byte values of the model's images
ImageBytes == {0, 1}

\* base addresses at which the host maps a module
Bases == {8, 16}

\* the tokens of the model's patterns: the wildcard, two hex bytes, and a
\* nibble wildcard (no hex byte)
PatternTokens == {<<"?", "?">>, <<"0", "0">>, <<"0", "1">>, <<"4", "?">>}

\* every sequence of at most n elements of S
RECURSIVE SeqsUpTo(_, _)
SeqsUpTo(S, n) ==
    IF n = 0 THEN {<<>>}
    ELSE LET shorter == SeqsUpTo(S, n - 1)
         IN shorter \cup {Append(q, x) : q \in {y \in shorter : Len(y) = n - 1},
                                          x \in S}

\* char::to_digit(16): the value of a hex digit, -1 for any other character
HexLower == <<"0", "1", "2", "3", "4", "5", "6", "7", "8", "9",
              "a", "b", "c", "d", "e", "f">>
HexUpper == <<"0", "1", "2", "3", "4", "5", "6", "7", "8", "9",
              "A", "B", "C", "D", "E", "F">>
to_digit(c) ==
    IF \E i \in DOMAIN HexLower : HexLower[i] = c \/ HexUpper[i] = c
    THEN (CHOOSE i \in DOMAIN HexLower : HexLower[i] = c \/ HexUpper[i] = c) - 1
    ELSE -1

\* the digits of u8::from_str_radix folded from the left; -1 on a character
\* that is no hex digit or on a value above u8::MAX
RECURSIVE FoldDigits(_, _)
FoldDigits(digits, acc) ==
    IF digits = <<>> THEN acc
    ELSE LET v == to_digit(Head(digits))
         IN IF v < 0 THEN -1
            ELSE IF acc * 16 + v > 255 THEN -1
            ELSE FoldDigits(Tail(digits), acc * 16 + v)

\* u8::from_str_radix(byte_str, 16): Some(value), or None for the ParseIntError
\* (empty string, a lone sign, an invalid digit, overflow)
from_str_radix(tok) ==
    LET digits == IF tok # <<>> /\ Head(tok) = "+" THEN Tail(tok) ELSE tok
        v == IF digits = <<>> THEN -1 ELSE FoldDigits(digits, 0)
    IN IF v < 0 THEN None ELSE Some(v)

\* a map closure that lets a token it cannot parse stand for any byte
ParseTokenLenient(tok) ==
    LET r == IF tok = <<"?", "?">> THEN None ELSE from_str_radix(tok)
    IN [ok |-> TRUE, byte |-> r]

\* the closure of the map: "??" is Ok(None), anything else is parsed as hex
ParseToken(tok) ==
    IF tok = <<"?", "?">>
    THEN [ok |-> TRUE, byte |-> None]
    ELSE LET r == from_str_radix(tok)
         IN [ok |-> r.some, byte |-> r]

\* collect::<Result<Vec<Option<u8>>, ParseIntError>>(): the first token that
\* fails makes the whole result an Err
RECURSIVE ParsePattern(_)
ParsePattern(toks) ==
    IF toks = <<>> THEN [ok |-> TRUE, bytes |-> <<>>]
    ELSE LET t == ParseToken(Head(toks))
         IN IF ~t.ok THEN [ok |-> FALSE, bytes |-> <<>>]
            ELSE LET rest == ParsePattern(Tail(toks))
                 IN IF ~rest.ok THEN rest
                    ELSE [ok |-> TRUE, bytes |-> <<t.byte>> \o rest.bytes]

\* usize subtraction that wraps around below zero
WrappingSub(a, b) == (a - b + USIZE_MOD) % USIZE_MOD

\* usize::saturating_sub
saturating_sub(a, b) == IF a >= b THEN a - b ELSE 0

\* the whole image length as the end of the scan, no pattern length taken off
ScanLimitWholeImage(imageLen, patternLen) == imageLen

\* the exclusive end of `0..module_memory.len().saturating_sub(pattern_bytes.len())`
ScanLimit(imageLen, patternLen) == saturating_sub(imageLen, patternLen)

\* usize::checked_add
checked_add(a, b) == IF a + b < USIZE_MOD THEN Some(a + b) ELSE None

\* pattern_bytes.iter().enumerate().all(...) for the window at offset i, from
\* token j on: a wildcard reads nothing, a concrete byte reads
\* module_memory[i + j] (a bounds-checked index), the first mismatch ends it.
\* reads: the offsets read; oob: the offset whose index check failed.
RECURSIVE WindowAll(_, _, _, _, _)
WindowAll(mem, bytes, i, j, reads) ==
    IF j > Len(bytes) THEN [all |-> TRUE, panic |-> FALSE, reads |-> reads, oob |-> {}]
    ELSE IF ~bytes[j].some THEN WindowAll(mem, bytes, i, j + 1, reads)
    ELSE LET off == i + (j - 1)
         IN IF off >= Len(mem)
            THEN [all |-> FALSE, panic |-> TRUE, reads |-> reads, oob |-> {off}]
            ELSE IF mem[off + 1] = bytes[j].val
            THEN WindowAll(mem, bytes, i, j + 1, reads \cup {off})
            ELSE [all |-> FALSE, panic |-> FALSE, reads |-> reads \cup {off}, oob |-> {}]

\* the result record of pattern_search
ScanResult(kind, addr, limit, reads, oob, parsed) ==
    [kind |-> kind, addr |-> addr, limit |-> limit, reads |-> reads, oob |-> oob,
     parsed |-> parsed]

\* the for loop over i in 0..limit
RECURSIVE ScanLoop(_, _, _, _, _, _)
ScanLoop(mem, baseAddr, bytes, i, limit, reads) ==
    IF i >= limit THEN ScanResult("None", NULL, limit, reads, {}, TRUE)
    ELSE LET w == WindowAll(mem, bytes, i, 1, reads)
         IN IF w.panic THEN ScanResult("Panic", NULL, limit, w.reads, w.oob, TRUE)
            ELSE IF w.all
            THEN LET a == checked_add(baseAddr, i)
                 IN IF a.some THEN ScanResult("Some", a.val, limit, w.reads, {}, TRUE)
                    ELSE ScanResult("Panic", NULL, limit, w.reads, {}, TRUE)
            ELSE ScanLoop(mem, baseAddr, bytes, i + 1, limit, w.reads)

\* a pattern_search that gives up on a pattern without tokens
pattern_search_RejectEmpty(mem, baseAddr, info, toks) ==
    LET p == ParsePattern(toks)
    IN IF ~p.ok THEN ScanResult("None", NULL, 0, {}, {}, FALSE)
       ELSE IF ~info \/ p.bytes = <<>> THEN ScanResult("None", NULL, 0, {}, {}, TRUE)
       ELSE ScanLoop(mem, baseAddr, p.bytes, 0, ScanLimit(Len(mem), Len(p.bytes)), {})

\* module_handler::pattern_search
pattern_search(mem, baseAddr, info, toks) ==
    LET p == ParsePattern(toks)
    IN IF ~p.ok THEN ScanResult("None", NULL, 0, {}, {}, FALSE)
       ELSE IF ~info THEN ScanResult("None", NULL, 0, {}, {}, TRUE)
       ELSE ScanLoop(mem, baseAddr, p.bytes, 0, ScanLimit(Len(mem), Len(p.bytes)), {})

\* one call of pattern_search on the module and the pattern of the state
PatternSearch ==
    /\ spc = "ready"
    /\ sres' = pattern_search(image, base, infoOk, pattern)
    /\ spc' = "done"
    /\ UNCHANGED <<image, base, infoOk, pattern>>
    /\ UNCHANGED notScanVars

InitScanVars ==
    /\ image = <<>>
    /\ base = NULL
    /\ infoOk = FALSE
    /\ pattern = <<>>
    /\ spc = "ready"
    /\ sres = ScanResult("None", NULL, 0, {}, {}, FALSE)

NextScan ==
    \/ PatternSearch

\* ------------------------------------------------------ interface resolver
\* the characters of an interface name; NUL is the zero byte
NUL == "NUL"
NameChars == {"a", NUL}
InterfaceNames == SeqsUpTo(NameChars, MaxNameLen)

\* CString::new(name): Err when the name holds an interior zero byte
CStringNew(name) ==
    IF \E n \in DOMAIN name : name[n] = NUL
    THEN [ok |-> FALSE, cstr |-> <<>>]
    ELSE [ok |-> TRUE, cstr |-> name]

\* the names that reach the module's factory as C strings
CNames == {n \in InterfaceNames : CStringNew(n).ok}
\* what a factory may return: a null pointer or an interface pointer
IfacePtrs == 0..NumIfacePtrs

\* get_proc_address(module_handle, "CreateInterface"): the export or None
get_proc_address(exported) == IF exported THEN Some(1) ELSE None

\* the outcomes of get_interface
IfacePanic(msg) == [kind |-> "Panic", val |-> NULL, msg |-> msg]
IfaceNone == [kind |-> "None", val |-> NULL, msg |-> ""]
IfaceSome(ptr) == [kind |-> "Some", val |-> ptr, msg |-> ""]

\* module_handler::get_interface: expect() on the export, None for a name
\* that is no C string, otherwise Some(whatever the factory returned)
get_interface(exported, fact, name) ==
    IF ~get_proc_address(exported).some
    THEN IfacePanic("Failed to cast CreateInterface to a function pointer")
    ELSE LET c == CStringNew(name)
         IN IF ~c.ok THEN IfaceNone
            ELSE IfaceSome(fact[c.cstr])

\* one call of get_interface on the module of the state
GetInterface ==
    /\ gpc = "ready"
    /\ gres' = get_interface(hasExport, factory, iname)
    /\ gpc' = "done"
    /\ UNCHANGED <<hasExport, factory, iname>>
    /\ UNCHANGED notIfaceVars

InitIfaceVars ==
    /\ hasExport = TRUE
    /\ factory = [n \in CNames |-> NULL]
    /\ iname = <<>>
    /\ gpc = "ready"
    /\ gres = IfaceNone

NextIface ==
    \/ GetInterface

\* --------------------------------------------------------- attach sequence
\* the steps of bootstrap::initialize, those of initialize_hooks included
BootSteps ==
    <<"init_tracing", "initialize_modules", "render::setup", "initialize_minhook",
      "find create_move", "find present", "find resize_buffers",
      "hook create_move", "hook present", "hook resize_buffers">>
FindSteps == <<"find create_move", "find present", "find resize_buffers">>
HookSteps == <<"hook create_move", "hook present", "hook resize_buffers">>

\* the names bootstrap::initialize hands to initialize_modules
BootNames == <<"client.dll", "engine2.dll", "gameoverlayrenderer64.dll">>
\* the thread that runs the sequence
BootThread == 1

\* the detours of core::hooks
hk_create_move == 1
hk_present == 2
hk_resize_buffers == 3
BootDetours == <<hk_create_move, hk_present, hk_resize_buffers>>
\* a detour of a Hook::hook call that is not one of initialize_hooks
OtherDetour == 4

\* the binary each search runs on, its base, and the pattern searched for
\* (short patterns: the second has a wildcard and shares its start with the
\* third, as the present and resize_buffers patterns do)
FindModule == <<"client.dll", "gameoverlayrenderer64.dll", "gameoverlayrenderer64.dll">>
ModuleBase(name) == IF name = "client.dll" THEN 8 ELSE 16
FindPattern ==
    << << <<"0", "1">> >>,
       << <<"0", "1">>, <<"?", "?">> >>,
       << <<"0", "1">>, <<"0", "0">> >> >>

\* the step the sequence is at
CurStep == BootSteps[bnext]
\* initialize has not ended and its thread is not inside a Hook::hook call
Running == bret = "none" /\ bnext \in DOMAIN BootSteps /\ ipc = "idle"
\* the position of the step at hand among the searches, or the installs
FindIndex == CHOOSE k \in DOMAIN FindSteps : FindSteps[k] = CurStep
HookIndex == CHOOSE k \in DOMAIN HookSteps : HookSteps[k] = CurStep

\* a step has ended with res ("ok", "err", "panic"); `?` and bail! return
\* the error from initialize, a panic unwinds out of it. failed: the step
\* did not do what it is there for
StepEnds(step, res, failed) ==
    /\ blog' = Append(blog, [step |-> step, res |-> res, failed |-> failed])
    /\ IF res = "ok"
       THEN /\ bnext' = bnext + 1
            /\ bret' = IF bnext = Len(BootSteps) THEN "Ok" ELSE "none"
       ELSE /\ bnext' = bnext
            /\ bret' = IF res = "panic" THEN "panic" ELSE "Err"

\* init_tracing().context(..)?: set_global_default succeeds or fails
BootTracing ==
    /\ Running /\ CurStep = "init_tracing"
    /\ \E res \in {"ok", "err"} : StepEnds(CurStep, res, res # "ok")
    /\ UNCHANGED bfound
    /\ UNCHANGED notBootVars

\* cs2::modules::initialize_modules(&[...]) is called
BootCallModules ==
    /\ Running /\ CurStep = "initialize_modules"
    /\ mpc[BootThread] = "idle"
    /\ InitModulesEnter(BootThread, BootNames)

\* a sequence that goes on whatever initialize_modules returned
BootModulesReturnIgnoresError ==
    /\ Running /\ CurStep = "initialize_modules"
    /\ mpc[BootThread] \in {"done", "panicked"}
    /\ LET res == IF mpc[BootThread] = "panicked" THEN "panic"
                  ELSE IF mret[BootThread] = "ok" THEN "ok" ELSE "err"
       IN /\ blog' = Append(blog, [step |-> CurStep, res |-> res, failed |-> res # "ok"])
          /\ bnext' = bnext + 1
          /\ bret' = "none"
    /\ UNCHANGED bfound
    /\ UNCHANGED notBootVars

\* .context("failed to initialize modules")?
BootModulesReturn ==
    /\ Running /\ CurStep = "initialize_modules"
    /\ mpc[BootThread] \in {"done", "panicked"}
    /\ LET res == IF mpc[BootThread] = "panicked" THEN "panic"
                  ELSE IF mret[BootThread] = "ok" THEN "ok" ELSE "err"
       IN StepEnds(CurStep, res, res # "ok")
    /\ UNCHANGED bfound
    /\ UNCHANGED notBootVars

\* render::setup().context(..)?: find_window, fonts::setup and win32::setup
\* succeed, or one of them returns its error
BootRender ==
    /\ Running /\ CurStep = "render::setup"
    /\ \E res \in {"ok", "err"} : StepEnds(CurStep, res, res # "ok")
    /\ UNCHANGED bfound
    /\ UNCHANGED notBootVars

\* utils::hook_system::initialize_minhook() is called
BootCallMinhook ==
    /\ Running /\ CurStep = "initialize_minhook"
    /\ mhRet = "none"
    /\ InitializeMinhook

\* a sequence that goes on to the searches whatever initialize_minhook returned
BootMinhookReturnIgnoresError ==
    /\ Running /\ CurStep = "initialize_minhook"
    /\ mhRet # "none"
    /\ blog' = Append(blog, [step |-> CurStep,
                             res |-> IF mhRet = "Ok" THEN "ok" ELSE "err",
                             failed |-> mhRet # "Ok"])
    /\ bnext' = bnext + 1
    /\ bret' = "none"
    /\ UNCHANGED bfound
    /\ UNCHANGED notBootVars

\* `if let Err(status) = initialize_minhook() { bail!(..) }`
BootMinhookReturn ==
    /\ Running /\ CurStep = "initialize_minhook"
    /\ mhRet # "none"
    /\ StepEnds(CurStep, IF mhRet = "Ok" THEN "ok" ELSE "err", mhRet # "Ok")
    /\ UNCHANGED bfound
    /\ UNCHANGED notBootVars

\* the images a searched binary may have
BootImages == SeqsUpTo(ImageBytes, MaxImage) \ {<<>>}

\* cs2::modules::<module>().find_seq_of_bytes(pattern).context(..)?: the
\* accessor expects MODULES to be set and to hold the module, then
\* pattern_search runs on the module's image; None becomes the error
BootFind ==
    /\ Running /\ \E k \in DOMAIN FindSteps : FindSteps[k] = CurStep
    /\ LET k == FindIndex
           name == FindModule[k]
       IN IF ~MODULES.some \/ ~\E i \in DOMAIN MODULES.val : MODULES.val[i].name = name
          THEN StepEnds(CurStep, "panic", TRUE) /\ UNCHANGED bfound
          ELSE \E img \in BootImages, info \in BOOLEAN :
                  LET r == pattern_search(img, ModuleBase(name), info, FindPattern[k])
                  IN IF r.kind = "Some"
                     THEN /\ bfound' = [bfound EXCEPT ![k] = Some(r.addr)]
                          /\ StepEnds(CurStep, "ok", FALSE)
                     ELSE /\ StepEnds(CurStep, IF r.kind = "None" THEN "err" ELSE "panic",
                                      TRUE)
                          /\ UNCHANGED bfound
    /\ UNCHANGED notBootVars

\* create_hook!(target, detour): a None target bails, otherwise Hook::hook
\* is called with the target and the detour
BootCallHook ==
    /\ Running /\ \E k \in DOMAIN HookSteps : HookSteps[k] = CurStep
    /\ hk.detour # BootDetours[HookIndex]
    /\ IF bfound[HookIndex].some
       THEN HookLockStep(bfound[HookIndex].val, BootDetours[HookIndex])
       ELSE /\ StepEnds(CurStep, "err", TRUE)
            /\ UNCHANGED bfound
            /\ UNCHANGED notBootVars

\* create_hook!: `if !Hook::hook(..) { bail!("Failed to enable hook") }`.
\* The install has failed when the primitive could not create or could not
\* enable the redirect
BootHookReturn ==
    /\ Running /\ \E k \in DOMAIN HookSteps : HookSteps[k] = CurStep
    /\ hk.detour = BootDetours[HookIndex]
    /\ hookRet \in {"true", "false"}
    /\ StepEnds(CurStep, IF hookRet = "true" THEN "ok" ELSE "err",
                hookRet = "false" \/ Failed(createRes) \/ Failed(enableRes))
    /\ UNCHANGED bfound
    /\ UNCHANGED notBootVars

\* Hook::hook(t, OtherDetour) called on the initialization thread by code
\* other than initialize_hooks, between two steps that precede the installs
EarlyHook(t) ==
    /\ Running /\ ~\E k \in DOMAIN HookSteps : HookSteps[k] = CurStep
    /\ mpc[BootThread] \notin {"collect", "set"}
    /\ OtherDetour \notin hookedOk
    /\ HookLockStep(t, OtherDetour)

InitBootVars ==
    /\ bnext = 1
    /\ blog = <<>>
    /\ bret = "none"
    /\ bfound = [k \in DOMAIN FindSteps |-> None]

NextBoot ==
    \/ BootTracing
    \/ BootCallModules
    \/ \E t \in InitThreads : InitModulesCollect(t)
    \/ \E t \in InitThreads : InitModulesSet(t)
    \/ BootModulesReturn
    \/ BootRender
    \/ BootCallMinhook
    \/ BootMinhookReturn
    \/ BootFind
    \/ BootCallHook
    \/ HookCreate
    \/ HookEnable
    \/ HookPush
    \/ BootHookReturn

\* the attach sequence with a misplaced Hook::hook call
NextMisuse ==
    \/ BootTracing
    \/ BootCallModules
    \/ \E t \in InitThreads : InitModulesCollect(t)
    \/ \E t \in InitThreads : InitModulesSet(t)
    \/ BootModulesReturn
    \/ BootRender
    \/ BootCallMinhook
    \/ BootMinhookReturn
    \/ BootFind
    \/ BootCallHook
    \/ HookCreate
    \/ HookEnable
    \/ HookPush
    \/ BootHookReturn
    \/ \E t \in Targets : EarlyHook(t)

\* ------------------------------------------------------- virtual call adapter
\* size_of::<usize>() of the 64-bit host: the step of `.offset` on a
\* `*const usize`
PtrWidth == 8

\* the slot of IsInGame in the engine client's dispatch table
IsInGameIndex == 35

\* the slot indices of the model's virtual calls
SlotIndices == (0..(NumSlots - 1)) \cup {IsInGameIndex}

\* addresses of host objects, of dispatch tables and of host functions
ObjAddrs == {8, 16}
TableBases == {1024, 2048}
FnPtrs == {4096, 4104, 4112}

\* the host's memory around one object: the object's first word holds the
\* address of its dispatch table, the table holds one function pointer per
\* slot, PtrWidth bytes apart
BuildMemory(obj, tbase, tab) ==
    [a \in {obj} \cup {tbase + i * PtrWidth : i \in SlotIndices} |->
        IF a = obj THEN tbase ELSE tab[(a - tbase) \div PtrWidth]]

\* a pointer read: the word at address a; an address that is not mapped
\* reads as NULL
ReadWord(mem, a) == IF a \in DOMAIN mem THEN mem[a] ELSE NULL

\* a slot lookup whose offset is not scaled by the pointer width
get_vfunction_ByteOffset(mem, self, index) ==
    ReadWord(mem, ReadWord(mem, self) + index)

\* #[vfunc(index)]:
\* (*transmute::<_, *const *const usize>(self)).offset(index).read()
get_vfunction(mem, self, index) ==
    ReadWord(mem, ReadWord(mem, self) + index * PtrWidth)

\* Interface::get_method:
\* vtable = *(self.interface_pointer) as *const *const usize; *vtable.offset(index)
get_method(mem, interface_pointer, index) ==
    ReadWord(mem, ReadWord(mem, interface_pointer) + index * PtrWidth)

\* what the host function at address f returns when called on `this`
HostResult(f, this) == <<"result", f, this>>

\* the transmuted pointer is called with `this` as its first argument; a
\* call through a pointer that is no function of the host faults
CallThrough(f, this, index) ==
    /\ vidx' = index
    /\ vcalls' = Append(vcalls, [fn |-> f, this |-> this])
    /\ vret' = IF f \in FnPtrs THEN HostResult(f, this) ELSE <<"fault">>
    /\ vpc' = "done"
    /\ UNCHANGED <<vmem, vobj, vtab>>

\* a method generated by #[vfunc(index)]: vfunc(self, args..)
VirtualCall(index) ==
    /\ vpc = "ready"
    /\ CallThrough(get_vfunction(vmem, vobj, index), vobj, index)
    /\ UNCHANGED notVcallVars

\* Interface::is_in_game: the method of slot 35 called with interface_pointer
IsInGame ==
    /\ vpc = "ready"
    /\ CallThrough(get_method(vmem, vobj, IsInGameIndex), vobj, IsInGameIndex)
    /\ UNCHANGED notVcallVars

\* no virtual call is made: the state the other specifications keep
InitVcallVars ==
    /\ vobj = NULL
    /\ vtab = <<>>
    /\ vmem = <<>>
    /\ vidx = NULL
    /\ vpc = "ready"
    /\ vcalls = <<>>
    /\ vret = <<>>

NextVcall ==
    \/ \E index \in 0..(NumSlots - 1) : VirtualCall(index)
    \/ IsInGame

\* ------------------------------------------------------ engine_client, lazily
\* the threads that call cs2::interfaces::engine_client()
Callers == 1..NumCallers

\* the literal handed to get_interface: a name without a zero byte
EngineClientName == <<"a", "a">>

\* cs2::modules::engine2(): MODULES.get().expect(..), then the find by name
\* with its panic
engine2(cell) ==
    IF ~cell.some THEN [panic |-> TRUE, msg |-> "modules are not initialized"]
    ELSE IF ~\E i \in DOMAIN cell.val : cell.val[i].name = "engine2.dll"
    THEN [panic |-> TRUE, msg |-> "module engine2.dll is not found"]
    ELSE [panic |-> FALSE, msg |-> ""]

\* the closure of the Lazy: engine2().get_interface(name).expect(..), then
\* Interface::new; `calls` counts the invocations of the factory export
InterfaceClosure(cell, exported, fact) ==
    IF engine2(cell).panic THEN [panic |-> TRUE, ptr |-> NULL, calls |-> 0]
    ELSE LET r == get_interface(exported, fact, EngineClientName)
         IN IF r.kind = "Panic" THEN [panic |-> TRUE, ptr |-> NULL, calls |-> 0]
            ELSE IF r.kind = "None" THEN [panic |-> TRUE, ptr |-> NULL, calls |-> 0]
            ELSE [panic |-> FALSE, ptr |-> r.val, calls |-> 1]

\* Lazy::force on a cell in state st: the value when it is there, a panic
\* when the initializer is gone, the initializer's role when nobody has it,
\* a wait while another thread runs it
ForceOutcome(t, st) ==
    /\ st = "init" =>
           /\ epc' = [epc EXCEPT ![t] = "returned"]
           /\ eret' = [eret EXCEPT ![t] = Some(lzVal)]
           /\ UNCHANGED lzState
    /\ st = "poisoned" =>
           /\ epc' = [epc EXCEPT ![t] = "panicked"]
           /\ eret' = [eret EXCEPT ![t] = None]
           /\ UNCHANGED lzState
    /\ st = "uninit" =>
           /\ epc' = [epc EXCEPT ![t] = "init"]
           /\ eret' = [eret EXCEPT ![t] = None]
           /\ lzState' = "running"
    /\ st = "running" =>
           /\ epc' = [epc EXCEPT ![t] = "blocked"]
           /\ eret' = [eret EXCEPT ![t] = None]
           /\ UNCHANGED lzState
    /\ UNCHANGED <<lzVal, lzCalls>>

\* an engine_client() that runs the initializer again on a cell that
\* already holds a value
EngineClientEnterNoCache(t) ==
    /\ epc[t] \in {"idle", "returned"}
    /\ ForceOutcome(t, IF lzState = "init" THEN "uninit" ELSE lzState)
    /\ UNCHANGED <<coreVars, notLazyExt>>

\* engine_client(): `&INTERFACE_ENGINE_CLIENT` dereferences the Lazy
EngineClientEnter(t) ==
    /\ epc[t] \in {"idle", "returned"}
    /\ ForceOutcome(t, lzState)
    /\ UNCHANGED <<coreVars, notLazyExt>>

\* a thread that waited for the initializing thread goes on
EngineClientWake(t) ==
    /\ epc[t] = "blocked"
    /\ lzState \in {"init", "poisoned"}
    /\ ForceOutcome(t, lzState)
    /\ UNCHANGED <<coreVars, notLazyExt>>

\* the initializing thread runs the closure: the value is stored, or the
\* panic leaves the Lazy without its initializer
EngineClientInit(t) ==
    /\ epc[t] = "init"
    /\ LET c == InterfaceClosure(MODULES, hasExport, factory)
       IN /\ lzCalls' = lzCalls + c.calls
          /\ IF c.panic
             THEN /\ lzState' = "poisoned"
                  /\ epc' = [epc EXCEPT ![t] = "panicked"]
                  /\ UNCHANGED <<lzVal, eret>>
             ELSE /\ lzState' = "init"
                  /\ lzVal' = c.ptr
                  /\ epc' = [epc EXCEPT ![t] = "returned"]
                  /\ eret' = [eret EXCEPT ![t] = Some(c.ptr)]
    /\ UNCHANGED <<coreVars, notLazyExt>>

InitLazyVars ==
    /\ lzState = "uninit"
    /\ lzVal = NULL
    /\ lzCalls = 0
    /\ epc = [t \in Callers |-> "idle"]
    /\ eret = [t \in Callers |-> None]

NextLazy ==
    \/ \E t \in Callers : EngineClientEnter(t)
    \/ \E t \in Callers : EngineClientWake(t)
    \/ \E t \in Callers : EngineClientInit(t)

\* ------------------------------------------------------------------ dll_main
\* the threads on which the loader calls DllMain
DllThreads == 1..NumDllThreads

\* the reason codes DllMain is called with
ReasonCodes == 0..MaxReason
DLL_PROCESS_ATTACH == 1
DLL_PROCESS_DETACH == 0
\* the value dll_main returns
DllTrue == 1

\* INIT.call_once on a Once in state st: nothing when it is complete, the
\* closure's role when nobody has it, a wait while another thread runs it
CallOnce(t, st) ==
    /\ st = "complete" =>
           /\ dpc' = [dpc EXCEPT ![t] = "returned"]
           /\ dret' = [dret EXCEPT ![t] = Some(DllTrue)]
           /\ UNCHANGED onceState
    /\ st = "incomplete" =>
           /\ dpc' = [dpc EXCEPT ![t] = "closure"]
           /\ dret' = [dret EXCEPT ![t] = None]
           /\ onceState' = "running"
    /\ st = "running" =>
           /\ dpc' = [dpc EXCEPT ![t] = "blocked"]
           /\ dret' = [dret EXCEPT ![t] = None]
           /\ UNCHANGED onceState

\* a dll_main whose attach branch runs the closure on every call
DllMainEnterNoOnce(t, reason) ==
    /\ dpc[t] \in {"idle", "returned"}
    /\ dcalls < MaxDllCalls
    /\ dcalls' = dcalls + 1
    /\ dreason' = [dreason EXCEPT ![t] = reason]
    /\ IF reason = DLL_PROCESS_ATTACH
       THEN CallOnce(t, IF onceState = "complete" THEN "incomplete" ELSE onceState)
       ELSE /\ dpc' = [dpc EXCEPT ![t] = "returned"]
            /\ dret' = [dret EXCEPT ![t] = Some(DllTrue)]
            /\ UNCHANGED onceState
    /\ UNCHANGED <<console, started>>
    /\ UNCHANGED <<coreVars, notDllExt>>

\* dll_main(_, reason, _): the attach branch goes through INIT.call_once,
\* the detach branch logs, every other reason does nothing; then `1`
DllMainEnter(t, reason) ==
    /\ dpc[t] \in {"idle", "returned"}
    /\ dcalls < MaxDllCalls
    /\ dcalls' = dcalls + 1
    /\ dreason' = [dreason EXCEPT ![t] = reason]
    /\ IF reason = DLL_PROCESS_ATTACH
       THEN CallOnce(t, onceState)
       ELSE /\ dpc' = [dpc EXCEPT ![t] = "returned"]
            /\ dret' = [dret EXCEPT ![t] = Some(DllTrue)]
            /\ UNCHANGED onceState
    /\ UNCHANGED <<console, started>>
    /\ UNCHANGED <<coreVars, notDllExt>>

\* the closure of call_once: AllocConsole, then CreateThread(thread_startup);
\* a failed AllocConsole returns from the closure, a failed CreateThread is
\* logged; the Once is complete either way and dll_main returns 1
DllMainClosure(t) ==
    /\ dpc[t] = "closure"
    /\ \E allocOk \in BOOLEAN, threadOk \in BOOLEAN :
          /\ console' = IF allocOk THEN "allocated" ELSE "failed"
          /\ started' = IF allocOk /\ threadOk THEN started + 1 ELSE started
    /\ onceState' = "complete"
    /\ dpc' = [dpc EXCEPT ![t] = "returned"]
    /\ dret' = [dret EXCEPT ![t] = Some(DllTrue)]
    /\ UNCHANGED <<dreason, dcalls>>
    /\ UNCHANGED <<coreVars, notDllExt>>

\* a thread that waited in call_once goes on once the closure has run
DllMainWake(t) ==
    /\ dpc[t] = "blocked"
    /\ onceState = "complete"
    /\ dpc' = [dpc EXCEPT ![t] = "returned"]
    /\ dret' = [dret EXCEPT ![t] = Some(DllTrue)]
    /\ UNCHANGED <<onceState, console, started, dreason, dcalls>>
    /\ UNCHANGED <<coreVars, notDllExt>>

InitDllVars ==
    /\ onceState = "incomplete"
    /\ console = "none"
    /\ started = 0
    /\ dpc = [t \in DllThreads |-> "idle"]
    /\ dreason = [t \in DllThreads |-> NULL]
    /\ dret = [t \in DllThreads |-> None]
    /\ dcalls = 0

NextDll ==
    \/ \E t \in DllThreads, reason \in ReasonCodes : DllMainEnter(t, reason)
    \/ \E t \in DllThreads : DllMainClosure(t)
    \/ \E t \in DllThreads : DllMainWake(t)

\* ------------------------------------------------------ overlay: the detours
\* the host's threads that run the detours and the window procedure
OverlayThreads == {"render", "window"}

\* the window procedure that win32::setup installs
wndproc_hk == 5

\* the locks of the overlay (parking_lot::Mutex: not reentrant, no poisoning)
LockNames == {"DX11", "INPUT", "SETTINGS", "FONTS"}

\* the detours that initialize_hooks installs
BootDetourSet == {hk_create_move, hk_present, hk_resize_buffers}

\* what a detour is called with, and the window messages: Insert pressed,
\* another input message, a message that is no input
ArgVals == {1, 2}
Messages == {"WM_KEYDOWN VK_INSERT", "WM_MOUSEMOVE", "WM_PAINT"}

\* what the host's original function returns for its arguments
HostOriginal(fn, args) == <<"result", fn, args>>

\* LRESULT(1)
Blocked == <<"LRESULT", 1>>

\* ui::should_block_input: an input message while the menu is visible
should_block_input(msg, menu_visible) ==
    menu_visible /\ msg \in {"WM_KEYDOWN VK_INSERT", "WM_MOUSEMOVE"}

\* a running invocation: the function, its position, its arguments, the
\* calls of the original it has made, with which arguments, and whether the
\* frame callback (renderer.paint) has run in it
Frame(fn, pc, args) ==
    [fn |-> fn, pc |-> pc, args |-> args, orig |-> 0, origArgs |-> None, cb |-> FALSE]

\* the first position of each function
FirstPc(fn) ==
    IF fn = hk_create_move THEN "orig"
    ELSE IF fn = wndproc_hk THEN "input"
    ELSE "dx11"

\* the innermost invocation of thread t
Top(t) == stack[t][Len(stack[t])]
\* thread t is inside function fn at position pc
At(t, fn, pc) ==
    /\ opanic = ""
    /\ stack[t] # <<>>
    /\ Top(t).fn = fn /\ Top(t).pc = pc

\* the innermost invocation goes on to position pc
Goto(t, pc) ==
    stack' = [stack EXCEPT ![t] = [@ EXCEPT ![Len(@)] = [@ EXCEPT !.pc = pc]]]

\* the innermost invocation returns ret, having called the original n more
\* times, with its own arguments
Return(t, n, ret) ==
    /\ stack' = [stack EXCEPT ![t] = SubSeq(@, 1, Len(@) - 1)]
    /\ olast' = [olast EXCEPT ![t] =
                    [fn |-> Top(t).fn, args |-> Top(t).args,
                     orig |-> Top(t).orig + n,
                     origArgs |-> IF n > 0 THEN Some(Top(t).args) ELSE Top(t).origArgs,
                     cb |-> Top(t).cb, ret |-> ret]]

\* an expect/unwrap fails inside an `extern "system"` function: the panic
\* cannot unwind into the host and the process is aborted
Panic(msg) ==
    /\ opanic' = msg
    /\ UNCHANGED <<wndHooked, WNDPROC, INPUT, DX11, FONTS, showMenu, olock,
                   rpc, stack, olast>>

Acquire(t, l) == olock' = [olock EXCEPT ![l] = {t}]
Release(t, ls) == olock' = [l \in LockNames |-> IF l \in ls THEN olock[l] \ {t} ELSE olock[l]]

\* --------------------------------------------------------- render::setup
\* find_window().context(..)?
RenderFindWindow ==
    /\ rpc = "find_window"
    /\ \E found \in BOOLEAN : rpc' = IF found THEN "fonts" ELSE "failed"
    /\ UNCHANGED <<wndHooked, WNDPROC, INPUT, DX11, FONTS, showMenu, olock,
                   stack, olast, opanic>>
    /\ UNCHANGED <<coreVars, notOverlayExt>>

\* fonts::setup().context(..)?: a missing font family is the error,
\* otherwise `*FONTS.lock() = Some(fonts)`
FontsSetup ==
    /\ rpc = "fonts"
    /\ \/ /\ rpc' = "failed"
          /\ UNCHANGED FONTS
       \/ /\ olock["FONTS"] = {}
          /\ FONTS' = Some("fonts")
          /\ rpc' = "SetWindowLongPtrA"
    /\ UNCHANGED <<wndHooked, WNDPROC, INPUT, DX11, showMenu, olock,
                   stack, olast, opanic>>
    /\ UNCHANGED <<coreVars, notOverlayExt>>

\* win32::setup: SetWindowLongPtrA(window, GWLP_WNDPROC, wndproc_hk) makes
\* wndproc_hk the window's procedure and returns the old one, or fails
Win32SetWindowLongPtr ==
    /\ rpc = "SetWindowLongPtrA"
    /\ \E replaced \in BOOLEAN : wndHooked' = replaced
    /\ rpc' = "WNDPROC.set"
    /\ UNCHANGED <<WNDPROC, INPUT, DX11, FONTS, showMenu, olock,
                   stack, olast, opanic>>
    /\ UNCHANGED <<coreVars, notOverlayExt>>

\* win32::setup: WNDPROC.set(wndproc_fn), bail when the cell is set already
Win32SetWndproc ==
    /\ rpc = "WNDPROC.set"
    /\ IF WNDPROC.some
       THEN rpc' = "failed" /\ UNCHANGED WNDPROC
       ELSE /\ WNDPROC' = Some(IF wndHooked THEN "old_proc" ELSE "None")
            /\ rpc' = "INPUT.set"
    /\ UNCHANGED <<wndHooked, INPUT, DX11, FONTS, showMenu, olock,
                   stack, olast, opanic>>
    /\ UNCHANGED <<coreVars, notOverlayExt>>

\* win32::setup: INPUT.set(Mutex::new(InputManager::new(window)))
Win32SetInput ==
    /\ rpc = "INPUT.set"
    /\ IF INPUT.some
       THEN rpc' = "failed" /\ UNCHANGED INPUT
       ELSE /\ INPUT' = Some("InputManager")
            /\ rpc' = "initialize_hooks"
    /\ UNCHANGED <<wndHooked, WNDPROC, DX11, FONTS, showMenu, olock,
                   stack, olast, opanic>>
    /\ UNCHANGED <<coreVars, notOverlayExt>>

\* initialize_hooks after render::setup: the three detours get enabled, or
\* the sequence fails before
OverlayHooks ==
    /\ rpc = "initialize_hooks"
    /\ \E ok \in BOOLEAN : rpc' = IF ok THEN "done" ELSE "failed"
    /\ UNCHANGED <<wndHooked, WNDPROC, INPUT, DX11, FONTS, showMenu, olock,
                   stack, olast, opanic>>
    /\ UNCHANGED <<coreVars, notOverlayExt>>

\* ------------------------------------------------------------ the detours
\* the host calls a hooked function, or dispatches a message to the window
\* whose procedure is wndproc_hk; get_original_fn! finds the original
DetourEnter(t, fn, args) ==
    /\ opanic = ""
    /\ stack[t] = <<>>
    /\ IF fn = wndproc_hk THEN wndHooked ELSE rpc = "done"
    /\ stack' = [stack EXCEPT ![t] = <<Frame(fn, FirstPc(fn), args)>>]
    /\ UNCHANGED <<wndHooked, WNDPROC, INPUT, DX11, FONTS, showMenu, olock,
                   rpc, olast, opanic>>
    /\ UNCHANGED <<coreVars, notOverlayExt>>

\* init_from_swapchain: DX11.get_or_init(|| Mutex::new(..expect(..))).lock()
PresentDx11(t) ==
    /\ At(t, hk_present, "dx11")
    /\ \/ /\ ~DX11.some
          /\ Panic("could not create dx11 renderer")
       \/ /\ olock["DX11"] = {}
          /\ DX11' = Some("renderer")
          /\ Acquire(t, "DX11")
          /\ Goto(t, "input")
          /\ UNCHANGED <<wndHooked, WNDPROC, INPUT, FONTS, showMenu, rpc,
                         olast, opanic>>
    /\ UNCHANGED <<coreVars, notOverlayExt>>

\* init_from_swapchain: win32::INPUT.get().expect(..).lock()
PresentInput(t) ==
    /\ At(t, hk_present, "input")
    /\ \/ /\ ~INPUT.some
          /\ Panic("win32::INPUT is not initialized")
       \/ /\ INPUT.some /\ olock["INPUT"] = {}
          /\ Acquire(t, "INPUT")
          /\ Goto(t, "collect")
          /\ UNCHANGED <<wndHooked, WNDPROC, INPUT, DX11, FONTS, showMenu, rpc,
                         olast, opanic>>
    /\ UNCHANGED <<coreVars, notOverlayExt>>

\* init_from_swapchain: .collect_input().expect(..); the INPUT guard is a
\* temporary of the statement
PresentCollect(t) ==
    /\ At(t, hk_present, "collect")
    /\ \/ Panic("could not collect input")
       \/ /\ Release(t, {"INPUT"})
          /\ Goto(t, "settings")
          /\ UNCHANGED <<wndHooked, WNDPROC, INPUT, DX11, FONTS, showMenu, rpc,
                         olast, opanic>>
    /\ UNCHANGED <<coreVars, notOverlayExt>>

\* init_from_swapchain: settings::SETTINGS.lock()
PresentSettings(t) ==
    /\ At(t, hk_present, "settings")
    /\ olock["SETTINGS"] = {}
    /\ Acquire(t, "SETTINGS")
    /\ Goto(t, "fonts")
    /\ UNCHANGED <<wndHooked, WNDPROC, INPUT, DX11, FONTS, showMenu, rpc,
                   olast, opanic>>
    /\ UNCHANGED <<coreVars, notOverlayExt>>

\* init_from_swapchain: renderer.paint(.., |ctx, settings| match
\* fonts::FONTS.lock().as_ref() ..)
PresentFonts(t) ==
    /\ At(t, hk_present, "fonts")
    /\ olock["FONTS"] = {}
    /\ Acquire(t, "FONTS")
    /\ Goto(t, "paint")
    /\ UNCHANGED <<wndHooked, WNDPROC, INPUT, DX11, FONTS, showMenu, rpc,
                   olast, opanic>>
    /\ UNCHANGED <<coreVars, notOverlayExt>>

\* init_from_swapchain: the frame is painted (an error of paint is printed)
\* and the function returns, dropping the three guards
PresentPaint(t) ==
    /\ At(t, hk_present, "paint")
    /\ Release(t, {"FONTS", "SETTINGS", "DX11"})
    /\ stack' = [stack EXCEPT ![t] =
                    [@ EXCEPT ![Len(@)] = [@ EXCEPT !.pc = "orig", !.cb = TRUE]]]
    /\ UNCHANGED <<wndHooked, WNDPROC, INPUT, DX11, FONTS, showMenu, rpc,
                   olast, opanic>>
    /\ UNCHANGED <<coreVars, notOverlayExt>>

\* a detour that returns a value of its own without calling the original
DetourSkipsOriginal(t, fn) ==
    /\ At(t, fn, "orig")
    /\ Return(t, 0, HostOriginal(fn, Top(t).args))
    /\ UNCHANGED <<wndHooked, WNDPROC, INPUT, DX11, FONTS, showMenu, olock,
                   rpc, opanic>>
    /\ UNCHANGED <<coreVars, notOverlayExt>>

\* hk_present, hk_create_move: original_fn(args..) is the value returned
DetourOriginal(t, fn) ==
    /\ At(t, fn, "orig")
    /\ Return(t, 1, HostOriginal(fn, Top(t).args))
    /\ UNCHANGED <<wndHooked, WNDPROC, INPUT, DX11, FONTS, showMenu, olock,
                   rpc, opanic>>
    /\ UNCHANGED <<coreVars, notOverlayExt>>

\* hk_resize_buffers: DX11.get().expect(..).lock()
ResizeDx11(t) ==
    /\ At(t, hk_resize_buffers, "dx11")
    /\ \/ /\ ~DX11.some
          /\ Panic("dx11 renderer is not initialized while resizing buffers")
       \/ /\ DX11.some /\ olock["DX11"] = {}
          /\ Acquire(t, "DX11")
          /\ Goto(t, "orig")
          /\ UNCHANGED <<wndHooked, WNDPROC, INPUT, DX11, FONTS, showMenu, rpc,
                         olast, opanic>>
    /\ UNCHANGED <<coreVars, notOverlayExt>>

\* hk_resize_buffers: renderer.resize_buffers(.., || original_fn(..)) runs
\* the original under the DX11 guard; the host's original presents a frame
\* while it resizes, which enters hk_present on the same thread
ResizeOriginalPresents(t, args) ==
    /\ At(t, hk_resize_buffers, "orig")
    /\ Len(stack[t]) < MaxDepth
    /\ stack' = [stack EXCEPT ![t] =
                    Append([@ EXCEPT ![Len(@)] =
                               [@ EXCEPT !.pc = "in original", !.orig = 1,
                                         !.origArgs = Some(Top(t).args)]],
                           Frame(hk_present, FirstPc(hk_present), args))]
    /\ UNCHANGED <<wndHooked, WNDPROC, INPUT, DX11, FONTS, showMenu, olock,
                   rpc, olast, opanic>>
    /\ UNCHANGED <<coreVars, notOverlayExt>>

\* hk_resize_buffers: the original returns, resize_buffers returns its
\* value or an error, which `.expect("could not resize buffers")` panics on
ResizeOriginalReturns(t) ==
    /\ \/ At(t, hk_resize_buffers, "orig")
       \/ At(t, hk_resize_buffers, "in original")
    /\ \/ Panic("could not resize buffers")
       \/ /\ Release(t, {"DX11"})
          /\ Return(t, IF Top(t).pc = "orig" THEN 1 ELSE 0,
                    HostOriginal(hk_resize_buffers, Top(t).args))
          /\ UNCHANGED <<wndHooked, WNDPROC, INPUT, DX11, FONTS, showMenu, rpc,
                         opanic>>
    /\ UNCHANGED <<coreVars, notOverlayExt>>

\* wndproc_hk: INPUT.get().expect("INPUT is not initialized").lock()
WndprocInput(t) ==
    /\ At(t, wndproc_hk, "input")
    /\ \/ /\ ~INPUT.some
          /\ Panic("INPUT is not initialized")
       \/ /\ INPUT.some /\ olock["INPUT"] = {}
          /\ Acquire(t, "INPUT")
          /\ Goto(t, "process")
          /\ UNCHANGED <<wndHooked, WNDPROC, INPUT, DX11, FONTS, showMenu, rpc,
                         olast, opanic>>
    /\ UNCHANGED <<coreVars, notOverlayExt>>

\* wndproc_hk: .process(..) and the guard's drop, WNDPROC.get().expect(..),
\* toggle_menu on Insert, then LRESULT(1) for a blocked message or
\* CallWindowProcW with the old procedure
WndprocProcess(t) ==
    /\ At(t, wndproc_hk, "process")
    /\ \/ /\ ~WNDPROC.some
          /\ Panic("WNDPROC is not initialized")
       \/ /\ WNDPROC.some
          /\ Release(t, {"INPUT"})
          /\ LET msg == Top(t).args
                 menu == IF msg = "WM_KEYDOWN VK_INSERT" THEN ~showMenu ELSE showMenu
             IN /\ showMenu' = menu
                /\ IF should_block_input(msg, menu)
                   THEN Return(t, 0, Blocked)
                   ELSE Return(t, 1, HostOriginal(wndproc_hk, msg))
          /\ UNCHANGED <<wndHooked, WNDPROC, INPUT, DX11, FONTS, rpc, opanic>>
    /\ UNCHANGED <<coreVars, notOverlayExt>>

NoInvocation == [fn |-> NULL, args |-> NULL, orig |-> 0, origArgs |-> None,
                 cb |-> FALSE, ret |-> <<>>]

InitOverlayVars ==
    /\ wndHooked = FALSE
    /\ WNDPROC = None
    /\ INPUT = None
    /\ DX11 = None
    /\ FONTS = None
    /\ showMenu = TRUE
    /\ olock = [l \in LockNames |-> {}]
    /\ rpc = "find_window"
    /\ stack = [t \in OverlayThreads |-> <<>>]
    /\ olast = [t \in OverlayThreads |-> NoInvocation]
    /\ opanic = ""

NextOverlay ==
    \/ RenderFindWindow
    \/ FontsSetup
    \/ Win32SetWindowLongPtr
    \/ Win32SetWndproc
    \/ Win32SetInput
    \/ OverlayHooks
    \/ \E t \in OverlayThreads, fn \in BootDetourSet, args \in ArgVals :
          DetourEnter(t, fn, args)
    \/ \E t \in OverlayThreads, msg \in Messages : DetourEnter(t, wndproc_hk, msg)
    \/ \E t \in OverlayThreads : PresentDx11(t)
    \/ \E t \in OverlayThreads : PresentInput(t)
    \/ \E t \in OverlayThreads : PresentCollect(t)
    \/ \E t \in OverlayThreads : PresentSettings(t)
    \/ \E t \in OverlayThreads : PresentFonts(t)
    \/ \E t \in OverlayThreads : PresentPaint(t)
    \/ \E t \in OverlayThreads, fn \in {hk_present, hk_create_move} : DetourOriginal(t, fn)
    \/ \E t \in OverlayThreads : ResizeDx11(t)
    \/ \E t \in OverlayThreads, args \in ArgVals : ResizeOriginalPresents(t, args)
    \/ \E t \in OverlayThreads : ResizeOriginalReturns(t)
    \/ \E t \in OverlayThreads : WndprocInput(t)
    \/ \E t \in OverlayThreads : WndprocProcess(t)

InitExtVars == InitVcallVars /\ InitLazyVars /\ InitDllVars /\ InitOverlayVars

\* the variables of the subsystems up to the attach sequence, at rest
InitCoreVars ==
    /\ InitHookVars /\ mhInit = FALSE
    /\ InitModuleVars /\ loaded = ModuleNames /\ InitScanVars
    /\ InitIfaceVars /\ InitBootVars

\* ---------------------------------------------------------- specifications
\* the hook manager: one installing thread, NumHosts host threads
InitHook ==
    /\ InitHookVars /\ mhInit = TRUE
    /\ InitModuleVars /\ loaded = ModuleNames /\ InitScanVars
    /\ InitIfaceVars /\ InitBootVars /\ InitExtVars
SpecHook == InitHook /\ [][NextHook]_vars

\* the hook manager with running threads: the installing thread finishes the
\* call it is in, a host thread inside get_proto_original goes on, and a
\* thread blocked in TARGETS.lock() gets the mutex when it is released again
\* and again (the installer makes three calls in all, hooks/mod.rs:103-105)
FairSpecHook ==
    /\ InitHook /\ [][FairNextHook]_vars
    /\ WF_vars(HookCreate) /\ WF_vars(HookEnable) /\ WF_vars(HookPush)
    /\ \A h \in Hosts : SF_vars(HostLock(h)) /\ WF_vars(HostFind(h))

\* the hook manager as a public interface: get_proto_original is called
\* with any closure, also one that panics
SpecPoison == InitHook /\ [][NextPoison]_vars

\* the module registry: the host process has any set of the binaries loaded
InitModules ==
    /\ InitModuleVars /\ loaded \in SUBSET ModuleNames
    /\ InitHookVars /\ mhInit = FALSE /\ InitScanVars
    /\ InitIfaceVars /\ InitBootVars /\ InitExtVars
SpecModules == InitModules /\ [][NextModules]_vars

\* the pattern scanner: any mapped image (a loaded binary has SizeOfImage > 0),
\* base, pattern text and module-info outcome
InitScan ==
    /\ image \in SeqsUpTo(ImageBytes, MaxImage) \ {<<>>}
    /\ base \in Bases
    /\ infoOk \in BOOLEAN
    /\ pattern \in SeqsUpTo(PatternTokens, MaxPattern)
    /\ spc = "ready"
    /\ sres = ScanResult("None", NULL, 0, {}, {}, FALSE)
    /\ InitHookVars /\ mhInit = FALSE /\ InitModuleVars /\ loaded = ModuleNames
    /\ InitIfaceVars /\ InitBootVars /\ InitExtVars
SpecScan == InitScan /\ [][NextScan]_vars

\* the interface resolver: any module (with or without the CreateInterface
\* export, any factory) and any interface name
InitIface ==
    /\ hasExport \in BOOLEAN
    /\ factory \in [CNames -> IfacePtrs]
    /\ iname \in InterfaceNames
    /\ gpc = "ready"
    /\ gres = IfaceNone
    /\ InitHookVars /\ mhInit = FALSE
    /\ InitModuleVars /\ loaded = ModuleNames /\ InitScanVars
    /\ InitBootVars /\ InitExtVars
SpecIface == InitIface /\ [][NextIface]_vars

\* the attach sequence, run once by the initialization thread in a host
\* process that has any of the three binaries loaded
InitBoot ==
    /\ InitBootVars
    /\ InitHookVars /\ mhInit = FALSE
    /\ InitModuleVars /\ loaded \in SUBSET {BootNames[i] : i \in DOMAIN BootNames}
    /\ InitScanVars /\ InitIfaceVars /\ InitExtVars
SpecBoot == InitBoot /\ [][NextBoot]_vars

\* the attach sequence in a program that also calls Hook::hook elsewhere
SpecMisuse == InitBoot /\ [][NextMisuse]_vars

\* the virtual call adapter: any host object, its dispatch table at any of
\* the table addresses, any function in each slot
InitVcall ==
    /\ vobj \in ObjAddrs
    /\ vtab \in [SlotIndices -> FnPtrs]
    /\ \E tbase \in TableBases : vmem = BuildMemory(vobj, tbase, vtab)
    /\ vidx = NULL
    /\ vpc = "ready"
    /\ vcalls = <<>>
    /\ vret = <<>>
    /\ InitCoreVars /\ InitLazyVars /\ InitDllVars /\ InitOverlayVars
SpecVcall == InitVcall /\ [][NextVcall]_vars

\* engine_client() called by NumCallers threads: MODULES unset, or set
\* without or with engine2.dll; any module export and factory
InitLazy ==
    /\ InitLazyVars
    /\ InitHookVars /\ mhInit = FALSE
    /\ mpc = [t \in InitThreads |-> "idle"]
    /\ mnames = [t \in InitThreads |-> <<>>]
    /\ mbuilt = [t \in InitThreads |-> <<>>]
    /\ mentrySet = [t \in InitThreads |-> FALSE]
    /\ mmissing = [t \in InitThreads |-> FALSE]
    /\ mret = [t \in InitThreads |-> "none"]
    /\ mfirst = EmptyCell
    /\ mcalls = 0
    /\ loaded = ModuleNames
    /\ MODULES \in {EmptyCell,
                    Some(<<Module("client.dll", HandleOf("client.dll"))>>),
                    Some(<<Module("client.dll", HandleOf("client.dll")),
                           Module("engine2.dll", HandleOf("engine2.dll"))>>)}
    /\ InitScanVars
    /\ hasExport \in BOOLEAN
    /\ factory \in [CNames -> IfacePtrs]
    /\ iname = <<>> /\ gpc = "ready" /\ gres = IfaceNone
    /\ InitBootVars
    /\ InitVcallVars /\ InitDllVars /\ InitOverlayVars
SpecLazy == InitLazy /\ [][NextLazy]_vars

\* DllMain called by the loader on NumDllThreads threads with any reason
InitDll ==
    /\ InitDllVars /\ InitCoreVars /\ InitVcallVars /\ InitLazyVars
    /\ InitOverlayVars
SpecDll == InitDll /\ [][NextDll]_vars

\* the overlay: render::setup on the initialization thread, the host's
\* threads calling the hooked functions and dispatching window messages
InitOverlay ==
    /\ InitOverlayVars /\ InitCoreVars /\ InitVcallVars /\ InitLazyVars
    /\ InitDllVars
SpecOverlay == InitOverlay /\ [][NextOverlay]_vars

\* ------------------------------------------------------ hook manager claims
\* the last Hook::hook call has returned
HookReturned == ipc = "idle" /\ hookRet # "none"

\* C1: when MH_CreateHook or MH_EnableHook fails, hook returns false and
\* TARGETS is as the call found it; an entry is appended only after both
\* steps succeeded.
C1_FailureLeavesRegistry ==
    HookReturned =>
        /\ (Failed(createRes) \/ Failed(enableRes)) =>
               (hookRet = "false" /\ TARGETS = hkBefore)
        /\ TARGETS # hkBefore =>
               (createRes = Some(MH_OK) /\ enableRes = Some(MH_OK))

\* C2: after a hook(target, detour) call that returned true,
\* get_proto_original(detour) is the original the primitive reported in that
\* call, also when the detour was installed earlier for another target.
C2_LookupReturnsReportedOriginal ==
    (HookReturned /\ hookRet = "true") =>
        get_proto_original(TARGETS, hk.detour) = Some(hk.original)

\* C3: a detour the primitive has enabled and that looks itself up with
\* get_proto_original never finds its entry absent, under every interleaving
\* of the installing thread with the host threads.
C3_EnabledDetourFindsEntry ==
    \A h \in Hosts : hres[h] # "absent" /\ hpc[h] # "panicked"

\* C3 witness: a host thread entered a detour before its entry was appended
\* (the installing thread was between MH_EnableHook and push_back) and its
\* lookup found the entry.
C3_Witness ==
    \E h \in Hosts : hraced[h] /\ hres[h] = "found"

\* C4: no two entries of TARGETS have the same detour address.
C4_UniqueDetour ==
    \A i, j \in DOMAIN TARGETS :
        i # j => TARGETS[i].detour # TARGETS[j].detour

\* --------------------------------------------------- module registry claims
\* thread t's initialize_modules call has ended, by a return or by a panic
ModulesCallEnded(t) == mpc[t] \in {"done", "panicked"}

\* the call returned an Err to its caller
ModulesErrReturned(t) ==
    /\ mpc[t] = "done"
    /\ mret[t] \in {"err: modules are already initialized",
                    "err: failed to initialize MODULES"}

\* C5: initialize_modules called after a call has succeeded returns the
\* 'already initialized' error and leaves the module list as the first call
\* stored it, for any second list of names.
C5_SecondInitializeFails ==
    \A t \in InitThreads :
        (ModulesCallEnded(t) /\ mentrySet[t]) =>
            /\ mpc[t] = "done"
            /\ mret[t] = "err: modules are already initialized"
            /\ MODULES = mfirst

\* C5 witness: a second call, made with a list naming a binary that is not
\* loaded, has returned its error, the stored list being non-empty.
C5_Witness ==
    \E t \in InitThreads :
        /\ mpc[t] = "done" /\ mentrySet[t]
        /\ mret[t] = "err: modules are already initialized"
        /\ mmissing[t]
        /\ MODULES.val # <<>>

\* C6: initialize_modules with a list containing a name that is not loaded
\* fails with an error reported to its caller, and stores no modules.
C6_MissingModuleReported ==
    \A t \in InitThreads :
        (ModulesCallEnded(t) /\ ~mentrySet[t] /\ mmissing[t]) =>
            /\ ModulesErrReturned(t)
            /\ mret[t] # "ok"

\* --------------------------------------------------- pattern scanner claims
\* the pattern of the state, parsed
Parsed == ParsePattern(pattern)

\* every concrete byte of the parsed pattern equals the image byte at the
\* same position of the window at offset o
MatchesAt(o) ==
    \A j \in 1..Len(Parsed.bytes) :
        Parsed.bytes[j].some => image[o + j] = Parsed.bytes[j].val

\* the offsets o, 0 <= o <= len(B) - len(P), at which the pattern matches
MatchOffsets == {o \in 0..(Len(image) - Len(Parsed.bytes)) : MatchesAt(o)}

SmallestOf(S) == CHOOSE m \in S : \A x \in S : m <= x

\* pattern_search has run on a pattern that parses and an image that is there
Searched == spc = "done" /\ sres.parsed /\ infoOk

\* C7: for a pattern that parses, pattern_search returns base + the smallest
\* offset in 0..len(B)-len(P) at which the pattern matches, and absent only
\* if there is none.
C7_SmallestMatchingOffset ==
    Searched =>
        IF MatchOffsets = {}
        THEN sres.kind = "None"
        ELSE sres.kind = "Some" /\ sres.addr = base + SmallestOf(MatchOffsets)

\* C8: an address returned by pattern_search lies at or after base with its
\* whole window inside the image, and no byte outside the image is read.
C8_ResultInsideImage ==
    spc = "done" =>
        /\ sres.oob = {}
        /\ sres.reads \subseteq 0..(Len(image) - 1)
        /\ sres.kind = "Some" =>
               (base <= sres.addr /\ (sres.addr - base) + Len(pattern) <= Len(image))

\* C8 witness: a match found past offset 0 after reading image bytes.
C8_Witness ==
    /\ spc = "done" /\ sres.kind = "Some"
    /\ sres.addr > base
    /\ sres.reads # {}

\* C9: a pattern of k wildcard tokens matches at offset 0 (the base address)
\* for every image of at least k bytes.
C9_AllWildcardMatchesAtBase ==
    (/\ spc = "done" /\ infoOk
     /\ Len(pattern) >= 1
     /\ \A j \in DOMAIN pattern : pattern[j] = <<"?", "?">>
     /\ Len(image) >= Len(pattern)) =>
        (sres.kind = "Some" /\ sres.addr = base)

\* C10: with more tokens than image bytes pattern_search returns absent; the
\* scan limit does not wrap around, nothing panics and no byte is read.
C10_LongPatternNoUnderflow ==
    (spc = "done" /\ Len(pattern) > Len(image)) =>
        /\ sres.kind = "None"
        /\ sres.limit <= Len(image)
        /\ sres.reads = {}
        /\ sres.oob = {}

\* C10 witness: a parsed pattern longer than the image was searched for in
\* an existing image, and the result is absent.
C10_Witness ==
    /\ Searched
    /\ Len(pattern) > Len(image)
    /\ \E j \in DOMAIN pattern : pattern[j] # <<"?", "?">>
    /\ sres.kind = "None"

\* a token that is a hex byte: one or two hex digits
IsHexByte(tok) ==
    /\ Len(tok) \in {1, 2}
    /\ \A n \in DOMAIN tok :
           \E i \in DOMAIN HexLower : tok[n] = HexLower[i] \/ tok[n] = HexUpper[i]

\* a token that is neither the wildcard "??" nor a hex byte
Malformed(tok) == tok # <<"?", "?">> /\ ~IsHexByte(tok)

\* C11: a pattern with a token that is neither "??" nor a hex byte makes
\* pattern_search end with the parse error before any image byte is read:
\* no match is returned, whatever the image holds.
C11_MalformedTokenAborts ==
    (spc = "done" /\ \E j \in DOMAIN pattern : Malformed(pattern[j])) =>
        /\ ~sres.parsed
        /\ sres.kind = "None"
        /\ sres.reads = {}
        /\ sres.oob = {}

\* C11 witness: the pattern "00 4?" was searched for in an existing image
\* that starts with 0x00, where a wildcard in place of "4?" would match at
\* offset 0, and the search ended with the parse error.
C11_Witness ==
    /\ spc = "done" /\ infoOk
    /\ pattern = << <<"0", "0">>, <<"4", "?">> >>
    /\ Len(image) >= 3 /\ image[1] = 0
    /\ ~sres.parsed /\ sres.kind = "None"

\* every token of the pattern of the state is a concrete byte
ConcretePattern ==
    /\ pattern # <<>>
    /\ \A j \in DOMAIN pattern : IsHexByte(pattern[j])

\* the image with the byte at offset off replaced by v
WithByte(mem, off, v) == [mem EXCEPT ![off + 1] = v]

\* the pattern with its j-th token replaced by the wildcard
WithWildcard(toks, j) == [toks EXCEPT ![j] = <<"?", "?">>]

\* C12: for an image that holds the bytes of a concrete pattern P only at
\* offset k, the search returns base + k; with one byte of that occurrence
\* changed the search for P returns absent; with the token at that position
\* replaced by "??" the search returns base + k again, whatever the value
\* of that byte.
C12_MutateThenWildcard ==
    (spc = "done" /\ infoOk /\ ConcretePattern) =>
        \A k \in 0..Len(image) :
            MatchOffsets = {k} =>
                /\ sres.kind = "Some" /\ sres.addr = base + k
                /\ \A j \in DOMAIN pattern, v \in ImageBytes :
                       LET changed == WithByte(image, k + j - 1, v)
                           again == pattern_search(changed, base, TRUE,
                                                   WithWildcard(pattern, j))
                       IN /\ v # image[k + j] =>
                                pattern_search(changed, base, TRUE, pattern).kind = "None"
                          /\ again.kind = "Some" /\ again.addr = base + k

C14_AbsentNotNullOrPanic ==
    gpc = "done" =>
        /\ ~hasExport => gres.kind = "None"
        /\ (hasExport /\ CStringNew(iname).ok /\ factory[iname] = NULL) =>
               gres.kind = "None"
        /\ ~(gres.kind = "Some" /\ gres.val = NULL)

\* ------------------------------------------- hook manager claims, continued
\* C18: when the TARGETS mutex is poisoned, Hook::hook and
\* get_proto_original end in a panic of the calling thread, never in a
\* normal return value, and no entry is added or returned.
C18_PoisonedLockIsFatal ==
    /\ lockRes = "err" =>
           (hookRet \notin {"true", "false"} /\ TARGETS = hkBefore)
    /\ \A h \in Hosts : hres[h] # "lockerr"

\* C19: after a second Hook::hook call with a target that has one entry,
\* either the call returned false and the registry still holds that one
\* entry for the target, or it returned true and the registry holds two
\* distinct entries for the target; a true without a new entry does not
\* happen.
C19_SameTargetTwice ==
    (HookReturned /\ lockRes = "ok"
     /\ Cardinality(EntriesFor(hkBefore, hk.target)) = 1) =>
        \/ /\ hookRet = "false"
           /\ Cardinality(EntriesFor(TARGETS, hk.target)) = 1
        \/ /\ hookRet = "true"
           /\ Cardinality(EntriesFor(TARGETS, hk.target)) = 2
           /\ \A i, j \in EntriesFor(TARGETS, hk.target) :
                  i # j => TARGETS[i] # TARGETS[j]

\* C19 witness: the second call with the same target returned true and the
\* registry holds two entries for it.
C19_Witness ==
    /\ HookReturned
    /\ Cardinality(EntriesFor(hkBefore, hk.target)) = 1
    /\ hookRet = "true"
    /\ Cardinality(EntriesFor(TARGETS, hk.target)) = 2

\* C20: in every state get_proto_original(d) is absent for every detour d
\* for which no Hook::hook(_, d) call has returned true.
C20_AbsentUnlessHooked ==
    \A d \in Detours :
        d \notin hookedOk => get_proto_original(TARGETS, d) = None

\* C20 witness: a Hook::hook call for a detour has returned false, no call
\* for that detour has returned true, and the registry holds an entry of
\* another detour.
C20_Witness ==
    /\ HookReturned /\ hookRet = "false"
    /\ hk.detour \notin hookedOk
    /\ TARGETS # <<>>
    /\ get_proto_original(TARGETS, hk.detour) = None

\* --------------------------------------------------- attach sequence claims
\* the ended steps whose name is in the list
LoggedIn(steps) ==
    {i \in DOMAIN blog : \E k \in DOMAIN steps : steps[k] = blog[i].step}

\* the step named `step` ended with "ok" before the i-th ended step
OkBefore(step, i) ==
    \E j \in 1..(i - 1) : blog[j].step = step /\ blog[j].res = "ok"

\* a Hook::hook call of initialize_hooks has started
BootHookCalled ==
    \E k \in DOMAIN BootDetours : hk.detour = BootDetours[k]

\* C15: in bootstrap::initialize every pattern search and every Hook::hook
\* call happens after initialize_modules has returned success; when
\* initialize_modules fails, no pattern search and no hook installation is
\* performed.
C15_ModulesBeforeSearchAndHook ==
    /\ \A i \in LoggedIn(FindSteps) \cup LoggedIn(HookSteps) :
           OkBefore("initialize_modules", i)
    /\ BootHookCalled =>
           (mpc[BootThread] = "done" /\ mret[BootThread] = "ok" /\ MODULES.some)
    /\ (mpc[BootThread] = "panicked"
        \/ (mpc[BootThread] = "done" /\ mret[BootThread] # "ok")) =>
           /\ LoggedIn(FindSteps) \cup LoggedIn(HookSteps) = {}
           /\ ~BootHookCalled /\ lockRes = "none" /\ TARGETS = <<>>
           /\ bfound = [k \in DOMAIN FindSteps |-> None]

\* C15 witness: initialize_modules has panicked on a binary that is not
\* loaded and the sequence has ended without a search or an install.
C15_Witness ==
    /\ mpc[BootThread] = "panicked"
    /\ bret = "panic"
    /\ Len(blog) = 2
    /\ TARGETS = <<>>

\* C16: the steps of the attach sequence run in order, none twice, and the
\* first step that fails ends the sequence with an error: no later step is
\* executed.
C16_FirstFailureEndsSequence ==
    /\ \A i \in DOMAIN blog : blog[i].step = BootSteps[i]
    /\ \A i, j \in DOMAIN blog : i # j => blog[i].step # blog[j].step
    /\ \A i \in DOMAIN blog :
           blog[i].failed =>
               /\ i = Len(blog)
               /\ bret \in {"Err", "panic"}

RegistryExtends ==
    /\ Len(TARGETS') >= Len(TARGETS)
    /\ \A i \in DOMAIN TARGETS : TARGETS'[i] = TARGETS[i]

\* a lookup that found an original before the step finds the same one after
LookupsStable ==
    \A d \in Detours :
        get_proto_original(TARGETS, d) # None =>
            get_proto_original(TARGETS', d) = get_proto_original(TARGETS, d)

\* C21: no step of the hook manager removes, modifies or reorders a stored
\* entry or disables an enabled redirect, and a detour whose lookup returns
\* an original keeps returning that original after every step, installs of
\* further hooks included.
C21_RegistryAppendOnly ==
    [][RegistryExtends /\ mhEnabled \subseteq mhEnabled' /\ LookupsStable]_vars

\* C21 witness: a detour found its original while the registry held one
\* entry less than it holds now, so a further hook was installed after the
\* entry the lookup returns.
C21_Witness ==
    /\ Len(TARGETS) = 2
    /\ TARGETS[1].detour # TARGETS[2].detour
    /\ \A d \in {TARGETS[1].detour, TARGETS[2].detour} :
           get_proto_original(TARGETS, d) # None
    /\ \E h \in Hosts : hpc[h] = "returned" /\ hres[h] = "found"

\* ------------------------------------------------------------------- C22
\* C22: of the initialize_modules calls made by the threads, at most one has
\* returned success, every other call that has ended has returned an error,
\* and after a success the registry holds the list that call stored.
C22_ConcurrentInitialize ==
    /\ Cardinality({t \in InitThreads : mret[t] = "ok"}) <= 1
    /\ \A t \in InitThreads :
           ModulesCallEnded(t) =>
               \/ mret[t] = "ok" /\ MODULES.some /\ MODULES = mfirst
               \/ ModulesErrReturned(t)

\* ------------------------------------------------------------------- C23
\* no thread is about to lock TARGETS, or has left the function that locked
\* it, while it holds the lock
NoLockHeldOutside ==
    /\ \A h \in Hosts : hpc[h] \in {"idle", "entered", "returned", "panicked"}
                            => h \notin lock
    /\ ipc = "idle" => Installer \notin lock

HookStepAt(k) == CHOOSE i \in DOMAIN BootSteps : BootSteps[i] = HookSteps[k]

\* the k-th install is the first install that failed
FirstFailedInstall(k) ==
    /\ HookStepAt(k) \in DOMAIN blog
    /\ blog[HookStepAt(k)].failed
    /\ \A j \in 1..(k - 1) : ~blog[HookStepAt(j)].failed

\* C27: when the k-th of the three installs of initialize_hooks is the first
\* that fails, initialize_hooks ends there with an error; the k-1 hooks
\* installed before it are still enabled in the primitive and still in the
\* registry, in order; and no hook after it is installed: its detour has no
\* registry entry, is not enabled and no Hook::hook call for it was made.
C27_FailedInstallNoRollback ==
    \A k \in DOMAIN HookSteps :
        FirstFailedInstall(k) =>
            /\ HookStepAt(k) = Len(blog) /\ bret = "Err"
            /\ \A j \in 1..(k - 1) :
                   /\ j \in DOMAIN TARGETS
                   /\ TARGETS[j].detour = BootDetours[j]
                   /\ TARGETS[j].target = bfound[j].val
                   /\ BootDetours[j] \in mhEnabled
            /\ \A j \in (k + 1)..Len(HookSteps) :
                   /\ FindDetour(TARGETS, BootDetours[j], 1) = 0
                   /\ BootDetours[j] \notin mhEnabled
                   /\ BootDetours[j] \notin hookedOk

\* ------------------------------------------------------------------- C24
\* C24: a virtual call through slot N of an object whose first word points
\* at its dispatch table invokes one function, the one the table holds in
\* slot N, with the object's address as first argument, and returns what
\* that function returned.
C24_VirtualCallDispatch ==
    vpc = "done" =>
        /\ Len(vcalls) = 1
        /\ vcalls[1].fn = vtab[vidx]
        /\ vcalls[1].this = vobj
        /\ vret = HostResult(vtab[vidx], vobj)

\* C24 witness: a call through slot 1 of a table whose slots 0 and 1 hold
\* different functions has returned.
C24_Witness ==
    /\ vpc = "done" /\ vidx = 1
    /\ vtab[0] # vtab[1]
    /\ vret = HostResult(vtab[1], vobj)

\* ------------------------------------------------------------------- C25
\* C25: over all engine_client() calls of all threads the module's factory
\* export is invoked at most once, and every call that has returned has
\* returned the pointer the Lazy holds.
C25_ResolvedOnce ==
    /\ lzCalls <= 1
    /\ \A t \in Callers :
           epc[t] = "returned" => (lzState = "init" /\ eret[t] = Some(lzVal))

\* C25 witness: two threads have called engine_client(), the factory was
\* invoked once and both calls returned the same non-null pointer.
C25_Witness ==
    /\ lzCalls = 1
    /\ \E t, u \in Callers :
           /\ t # u
           /\ epc[t] = "returned" /\ epc[u] = "returned"
           /\ eret[t] = eret[u] /\ eret[t].val # NULL

C28_WndprocAfterCells ==
    /\ wndHooked => (WNDPROC.some /\ INPUT.some)
    /\ opanic \notin {"INPUT is not initialized", "WNDPROC is not initialized"}

\* ------------------------------------------------------------------- C29
\* the order in which init_from_swapchain takes the overlay's locks
LockOrder == <<"DX11", "INPUT", "SETTINGS", "FONTS">>
LockRank(l) == CHOOSE i \in DOMAIN LockOrder : LockOrder[i] = l

\* the lock the innermost invocation of thread t is about to take ("none":
\* it is not at a lock)
WantsLock(t) ==
    IF stack[t] = <<>> THEN "none"
    ELSE LET f == Top(t)
         IN IF f.pc = "dx11" THEN "DX11"
            ELSE IF f.pc = "input" THEN "INPUT"
            ELSE IF f.pc = "settings" THEN "SETTINGS"
            ELSE IF f.pc = "fonts" THEN "FONTS"
            ELSE "none"

\* the overlay locks thread t holds
HeldLocks(t) == {l \in LockNames : t \in olock[l]}

\* C29: a thread that is about to take an overlay lock does not hold that
\* lock, and every lock it holds comes before it in the one order DX11,
\* INPUT, SETTINGS, FONTS; so no thread waits for itself and no two threads
\* wait for each other, also when the original resize function re-enters
\* hk_present on the thread of hk_resize_buffers.
C29_LockOrder ==
    \A t \in OverlayThreads :
        WantsLock(t) # "none" =>
            /\ t \notin olock[WantsLock(t)]
            /\ \A l \in HeldLocks(t) : LockRank(l) < LockRank(WantsLock(t))

\* ------------------------------------------------------------------- C30
\* the panics of init_from_swapchain, the frame callback of hk_present
PresentPanics ==
    {"could not create dx11 renderer", "win32::INPUT is not initialized",
     "could not collect input"}

\* an invocation of hk_present or hk_create_move that has returned called
\* the original once, with the arguments it received, and returned the
\* original's result; hk_present had run the frame callback
ReturnedThroughOriginal ==
    \A t \in OverlayThreads :
        olast[t].fn \in {hk_present, hk_create_move} =>
            /\ olast[t].orig = 1
            /\ olast[t].origArgs = Some(olast[t].args)
            /\ olast[t].ret = HostOriginal(olast[t].fn, olast[t].args)
            /\ olast[t].fn = hk_present => olast[t].cb

\* a running invocation of hk_present or hk_create_move has not called the
\* original yet, and hk_present is at the call only after the frame callback
OriginalIsLastStep ==
    \A t \in OverlayThreads : \A i \in DOMAIN stack[t] :
        stack[t][i].fn \in {hk_present, hk_create_move} =>
            /\ stack[t][i].orig = 0
            /\ (stack[t][i].fn = hk_present /\ stack[t][i].pc = "orig")
                   => stack[t][i].cb

\* C30 as stated: every invocation of hk_present and hk_create_move whose
\* original lookup succeeded calls the original exactly once, with the
\* arguments received, and returns its result unchanged, hk_present after
\* the frame callback has run; no such invocation ends in a panic of the
\* frame callback, before the original is called.
C30_OriginalExactlyOnce ==
    /\ ReturnedThroughOriginal
    /\ OriginalIsLastStep
    /\ opanic \notin PresentPanics

\* C30 amended: every invocation of hk_present and hk_create_move that
\* returns has called the original exactly once, as its last step, with the
\* arguments received, and returns its result unchanged, hk_present after
\* the frame callback has run; an hk_present invocation whose frame
\* callback panics has not called the original, and the process is aborted.
C30_OnceUnlessCallbackPanics ==
    /\ ReturnedThroughOriginal
    /\ OriginalIsLastStep
    /\ opanic \in PresentPanics =>
           \E t \in OverlayThreads :
               /\ stack[t] # <<>>
               /\ Top(t).fn = hk_present /\ Top(t).orig = 0 /\ ~Top(t).cb

\* C30 witness: one thread has returned from hk_present and the other from
\* hk_create_move, each through the original, with different arguments.
C30_Witness ==
    /\ olast["render"].fn = hk_present /\ olast["render"].orig = 1
    /\ olast["render"].cb
    /\ olast["window"].fn = hk_create_move /\ olast["window"].orig = 1
    /\ olast["render"].args # olast["window"].args

====
